---- MODULE Spec2Model ----
(***************************************************************************)
(* Model of the Crossmall fetch scripts:                                   *)
(*   customdate_get_order_detail_component_parallel.py  ("customdate")     *)
(*   get_order_detail_component_parallel.py             ("yesterday")      *)
(*   get_items_sku_stock_parallel.py                    ("items")          *)
(* The retrying requester, the paginators, the semaphore-bounded fan-out   *)
(* and the assembly of the output document.                                *)
(***************************************************************************)
EXTENDS Integers, Sequences, FiniteSets, TLC

VARIABLES req, pag, lim, job

vars == <<req, pag, lim, job>>

(***************************************************************************)
(* Bounds of the model.                                                    *)
(***************************************************************************)
MaxRetriesArg == 4
MaxDelayArg == 3
MaxPages == 3
MaxLimParents == 17
MaxLimChildren == 2
MaxRunDates == 2
MaxRunParents == 6
MaxRunChildren == 1
MaxHoldExtra == 1
MaxOutOrders == 2
MaxCsvOrders == 2
MaxRangeDays == 2

(***************************************************************************)
(* Text values.  A text is a sequence of one-character strings; the empty  *)
(* sequence stands for an absent element or an element without text (both  *)
(* are falsy in the scripts' tests "el is not None and el.text").          *)
(***************************************************************************)
NoText == <<>>

RECURSIVE LStrip(_)
LStrip(t) == IF t # <<>> /\ Head(t) = " " THEN LStrip(Tail(t)) ELSE t

RECURSIVE RStrip(_)
RStrip(t) ==
    IF t # <<>> /\ t[Len(t)] = " " THEN RStrip(SubSeq(t, 1, Len(t) - 1)) ELSE t

\* str.strip()
Strip(t) == RStrip(LStrip(t))

(***************************************************************************)
(* Response bodies.  kind "empty" is the empty string, "bad" a text that   *)
(* ET.fromstring rejects, "xml" a document whose Result elements are       *)
(* results.  None is what async_make_request returns on failure.           *)
(***************************************************************************)
EmptyText == [kind |-> "empty", results |-> <<>>]
BadXml == [kind |-> "bad", results |-> <<>>]
Xml(results) == [kind |-> "xml", results |-> results]
None == [kind |-> "None", results |-> <<>>]

\* Python truthiness of a returned text: "if not response_text"
Falsy(text) == text.kind \in {"None", "empty"}

(***************************************************************************)
(* Transport outcomes of one client.get + raise_for_status.                *)
(***************************************************************************)
Ok(body) == [kind |-> "ok", code |-> 200, body |-> body]
StatusError(code) == [kind |-> "status", code |-> code, body |-> None]
RequestError == [kind |-> "neterr", code |-> 0, body |-> None]
GeneralException == [kind |-> "exc", code |-> 0, body |-> None]

StatusCodes == {404, 429, 500, 503}

Failures == {StatusError(c) : c \in StatusCodes} \cup {RequestError, GeneralException}

\* the failures the retry policy of the specification calls retryable
Retryable(resp) ==
    \/ resp.kind \in {"neterr", "exc"}
    \/ resp.kind = "status" /\ (resp.code = 429 \/ resp.code >= 500)

(***************************************************************************)
(* async_make_request                                                      *)
(***************************************************************************)
DefaultMaxRetries == 3
DefaultDelay == 2

OrderVariants == {"customdate", "yesterday"}

RECURSIVE Pow2(_)
Pow2(n) == IF n <= 0 THEN 1 ELSE 2 * Pow2(n - 1)

\* "return None  # Don't retry client errors" exists in the yesterday script only
IsTerminalStatus(variant, resp) ==
    /\ variant = "yesterday"
    /\ resp.kind = "status"
    /\ ~(resp.code = 429 \/ resp.code >= 500)

\* "while attempts < max_retries" / "if attempts < max_retries"
MoreAttempts_off(attempts, max_retries) == attempts <= max_retries
\* the same test with one attempt fewer
MoreAttempts_short(attempts, max_retries) == attempts < max_retries - 1
MoreAttempts(attempts, max_retries) == attempts < max_retries

\* "delay * (2 ** (attempts - 1))"
BackoffDelay_double(delay, attempts) == delay * Pow2(attempts)
BackoffDelay(delay, attempts) == delay * Pow2(attempts - 1)

NewRequest(variant, max_retries, delay) ==
    [variant |-> variant, max_retries |-> max_retries, delay |-> delay,
     attempts |-> 0, calls |-> 0, hist |-> <<>>, slept |-> <<>>,
     pc |-> IF MoreAttempts(0, max_retries) THEN "calling" ELSE "returned",
     result |-> None]

\* an attempt that looks into the body and counts one that does not parse as
\* a failed attempt
AttemptStep_parseInside(r, resp) ==
    LET r1 == [r EXCEPT !.calls = @ + 1, !.hist = Append(@, resp)]
        a == r.attempts + 1
    IN  IF resp.kind = "ok" /\ resp.body.kind # "bad"
        THEN [r1 EXCEPT !.pc = "returned", !.result = resp.body]
        ELSE IF MoreAttempts(a, r.max_retries)
        THEN [r1 EXCEPT !.attempts = a, !.pc = "sleeping",
                        !.slept = Append(@, BackoffDelay(r.delay, a))]
        ELSE [r1 EXCEPT !.attempts = a, !.pc = "returned", !.result = None]
\* one pass through the body of the while loop, up to the sleep or the return
AttemptStep(r, resp) ==
    LET r1 == [r EXCEPT !.calls = @ + 1, !.hist = Append(@, resp)]
        a == r.attempts + 1
    IN  IF resp.kind = "ok"
        THEN [r1 EXCEPT !.pc = "returned", !.result = resp.body]
        ELSE IF IsTerminalStatus(r.variant, resp)
        THEN [r1 EXCEPT !.pc = "returned", !.result = None]
        ELSE IF MoreAttempts(a, r.max_retries)
        THEN [r1 EXCEPT !.attempts = a, !.pc = "sleeping",
                        !.slept = Append(@, BackoffDelay(r.delay, a))]
        ELSE [r1 EXCEPT !.attempts = a, !.pc = "returned", !.result = None]

\* asyncio.sleep returns: back to the head of the loop
WakeStep(r) ==
    [r EXCEPT !.pc = IF MoreAttempts(r.attempts, r.max_retries) THEN "calling" ELSE "returned"]

\* the whole call, given the transport outcomes in order
RECURSIVE RunRequest(_, _)
RunRequest(r, resps) ==
    IF r.pc = "returned" THEN r
    ELSE IF r.pc = "sleeping" THEN RunRequest(WakeStep(r), resps)
    ELSE IF resps = <<>> THEN r
    ELSE RunRequest(AttemptStep(r, Head(resps)), Tail(resps))

async_make_request(variant, resps) ==
    RunRequest(NewRequest(variant, DefaultMaxRetries, DefaultDelay), resps)

(***************************************************************************)
(* Specification of one async_make_request call, attempt by attempt.       *)
(***************************************************************************)
ReqBodies == {EmptyText, BadXml, Xml(<<>>)}
ReqResponses == {Ok(b) : b \in ReqBodies} \cup Failures

IdleRequest == NewRequest("customdate", 0, 0)
IdlePag == [pc |-> "idle"]
IdleLim == [pc |-> "idle"]
IdleJob == [pc |-> "idle", tasks |-> <<>>]

ReqInit ==
    /\ req \in {NewRequest(v, n, d) :
                  v \in OrderVariants, n \in 0..MaxRetriesArg, d \in 1..MaxDelayArg}
    /\ pag = IdlePag
    /\ lim = IdleLim
    /\ job = IdleJob

ReqAttempt ==
    /\ req.pc = "calling"
    /\ \E resp \in ReqResponses : req' = AttemptStep(req, resp)
    /\ UNCHANGED <<pag, lim, job>>

ReqWake ==
    /\ req.pc = "sleeping"
    /\ req' = WakeStep(req)
    /\ UNCHANGED <<pag, lim, job>>

ReqNext == ReqAttempt \/ ReqWake

SpecReq == ReqInit /\ [][ReqNext]_vars

(***************************************************************************)
(* The paginators: async_fetch_base_orders_for_day (both order scripts)    *)
(* and fetch_all_items.                                                    *)
(*                                                                         *)
(* A listing Result is [key, id]: key is the text of its order_number      *)
(* (item_code) element, NoText when the element is absent or empty; id     *)
(* identifies the copy the server sent.                                    *)
(* all_orders_data is a Python dict: a sequence of [key, rec] entries in   *)
(* insertion order, an assignment to an existing key replacing the value   *)
(* in place.                                                               *)
(***************************************************************************)
\* "if len(results) < 100" with the comparison off by one
FullPageSize_off == 100 + 1
FullPageSize == 100

Variants == OrderVariants \cup {"items"}

HasKey(d, k) == \E i \in 1..Len(d) : d[i].key = k

\* d[k] = rec
DictSet_append(d, k, rec) == Append(d, [key |-> k, rec |-> rec])
\* the same assignment on a map that moves a rewritten key to the end
DictSet_reinsert(d, k, rec) ==
    Append(SelectSeq(d, LAMBDA e : e.key # k), [key |-> k, rec |-> rec])
DictSet(d, k, rec) ==
    IF HasKey(d, k)
    THEN [d EXCEPT ![CHOOSE i \in 1..Len(d) : d[i].key = k] = [key |-> k, rec |-> rec]]
    ELSE Append(d, [key |-> k, rec |-> rec])

\* one pass of the body of "for res in results" for result i
StoreResult(d, results, i) ==
    IF results[i].key # NoText
    THEN DictSet(d, Strip(results[i].key), results[i])
    ELSE d

\* the "for res in results" loop of the order scripts over results lo..hi, in
\* order.  The range is halved and the first half is computed before the
\* second is entered (Len(first) >= 0 is always true) only to keep the
\* evaluation shallow.
RECURSIVE StoreRange(_, _, _, _)
StoreRange(d, results, lo, hi) ==
    IF lo > hi THEN d
    ELSE IF lo = hi THEN StoreResult(d, results, lo)
    ELSE LET mid == (lo + hi) \div 2
             first == StoreRange(d, results, lo, mid)
         IN  IF Len(first) >= 0 THEN StoreRange(first, results, mid + 1, hi) ELSE first

StoreResults(d, results) == StoreRange(d, results, 1, Len(results))

\* "items.append(item_elem)" for every result of the page
AppendItems(items, results) ==
    items \o [i \in 1..Len(results) |-> [key |-> Strip(results[i].key), rec |-> results[i]]]

\* the stripped key of the last result of the page that has a key, else
\* default: new_last_order_number_on_page (yesterday), item_code (items)
LastKeyed(results, default) ==
    LET keyed == {i \in 1..Len(results) : results[i].key # NoText}
    IN  IF keyed = {} THEN default
        ELSE Strip(results[CHOOSE i \in keyed : \A j \in keyed : j <= i].key)

NewPaginator(variant) ==
    [variant |-> variant, all_orders_data |-> <<>>, last_order_number |-> NoText,
     page_count |-> 0, pc |-> "loop", stop |-> "",
     sent |-> <<>>, seen |-> <<>>, in_flight |-> 0]

\* "response_text = await async_make_request(...)": the coroutine of the
\* paginator is suspended while its listing request is in flight, and
\* resumes in the loop when the answer is there
AwaitPage_prefetch(p) == [p EXCEPT !.in_flight = @ + 1]
AwaitPage(p) == [p EXCEPT !.pc = "awaiting", !.in_flight = @ + 1]

Received(p) == [p EXCEPT !.pc = "loop", !.in_flight = @ - 1]

Break_dropOnFailure(p, why) ==
    [p EXCEPT !.pc = "returned", !.stop = why,
              !.all_orders_data = IF why = "failed" THEN <<>> ELSE @]
Break(p, why) == [p EXCEPT !.pc = "returned", !.stop = why]

\* one iteration of "while True" of the customdate script, response_text given
StepCustomdate(p, response_text) ==
    LET p1 == [p EXCEPT !.page_count = @ + 1,
                        !.sent = Append(@, p.last_order_number),
                        !.seen = Append(@, response_text)]
        results == response_text.results
        p2 == [p1 EXCEPT !.all_orders_data = StoreResults(@, results)]
        last == results[Len(results)].key
        p3 == [p2 EXCEPT !.last_order_number = Strip(last)]
    IN  IF Falsy(response_text) THEN Break(p1, "failed")
        ELSE IF response_text.kind = "bad" THEN Break(p1, "parse")
        ELSE IF results = <<>> THEN Break(p1, "empty")
        ELSE IF last = NoText THEN Break(p2, "nolastkey")
        ELSE IF Len(results) < FullPageSize THEN Break(p3, "short")
        ELSE p3

\* one iteration of "while True" of the yesterday script
StepYesterday(p, response_text) ==
    LET p1 == [p EXCEPT !.page_count = @ + 1,
                        !.sent = Append(@, p.last_order_number),
                        !.seen = Append(@, response_text)]
        results == response_text.results
        p2 == [p1 EXCEPT !.all_orders_data = StoreResults(@, results)]
        new_last == LastKeyed(results, NoText)
    IN  IF Falsy(response_text) THEN Break(p1, "failed")
        ELSE IF response_text.kind = "bad" THEN Break(p1, "parse")
        ELSE IF results = <<>> THEN Break(p1, "empty")
        ELSE IF Len(results) < FullPageSize THEN Break(p2, "short")
        ELSE IF new_last # NoText THEN [p2 EXCEPT !.last_order_number = new_last]
        ELSE Break(p2, "nolastkey")

\* one iteration of "while True" of fetch_all_items; resp is the outcome of
\* the single httpx.get, whose exceptions are not caught
StepItems(p, resp) ==
    LET text == IF resp.kind = "ok" THEN resp.body ELSE None
        p1 == [p EXCEPT !.page_count = @ + 1,
                        !.sent = Append(@, p.last_order_number),
                        !.seen = Append(@, text)]
        results == text.results
        p2 == [p1 EXCEPT !.all_orders_data = AppendItems(@, results),
                         !.last_order_number =
                             LastKeyed(results, p.last_order_number)]
    IN  IF resp.kind \in {"neterr", "exc"} THEN [p1 EXCEPT !.pc = "raised", !.stop = "raised"]
        ELSE IF resp.kind = "status" THEN Break(p1, "failed")
        ELSE IF text.kind \in {"bad", "empty"} THEN Break(p1, "parse")
        ELSE IF results = <<>> THEN Break(p1, "empty")
        ELSE IF Len(results) < FullPageSize THEN Break(p2, "short")
        ELSE p2

\* a paginator that stops when a page leaves its cursor where it was
PageStep_cursorCheck(p, resps) ==
    LET q == IF p.variant = "customdate"
             THEN StepCustomdate(p, async_make_request(p.variant, resps).result)
             ELSE IF p.variant = "yesterday"
             THEN StepYesterday(p, async_make_request(p.variant, resps).result)
             ELSE StepItems(p, Head(resps))
    IN  IF q.pc = "loop" /\ q.page_count > 1 /\ q.last_order_number = p.last_order_number
        THEN Break(q, "samecursor")
        ELSE q

\* one listing request and the handling of its answer; resps are the
\* transport outcomes the request meets, in order
PageStep(p, resps) ==
    IF p.variant = "customdate"
    THEN StepCustomdate(p, async_make_request(p.variant, resps).result)
    ELSE IF p.variant = "yesterday"
    THEN StepYesterday(p, async_make_request(p.variant, resps).result)
    ELSE StepItems(p, Head(resps))

(***************************************************************************)
(* Listing pages the server may answer with.                               *)
(***************************************************************************)
KA == <<"A">>
KB == <<"B">>
KApadded == <<" ", "A", " ">>
Kblank == <<" ">>

\* n results whose keys repeat pattern; n-th copy sent as page pno
CyclicPage(pattern, n, pno) ==
    [i \in 1..n |-> [key |-> pattern[((i - 1) % Len(pattern)) + 1],
                     id |-> pno * 1000 + i]]

\* n results with n different keys
DistinctPage(n, pno) ==
    [i \in 1..n |-> [key |-> <<"k", ToString(pno * 1000 + i)>>, id |-> pno * 1000 + i]]

KeyPatterns ==
    { <<KA>>, <<KA, KB>>, <<KB, KA>>, <<KA, KB, KA>>, <<KA, NoText>>,
      <<NoText, KApadded>>, <<KB, Kblank>>, <<NoText>> }

ListingPages(pno) ==
    {<<>>, DistinctPage(FullPageSize, pno), DistinctPage(FullPageSize - 1, pno)}
    \cup {CyclicPage(pat, Len(pat), pno) : pat \in KeyPatterns}
    \cup {CyclicPage(pat, FullPageSize, pno) : pat \in KeyPatterns}

ListingBodies(pno) == {Xml(pg) : pg \in ListingPages(pno)} \cup {EmptyText, BadXml}

\* what the transport answers to the attempts of one listing request
TransportScripts(body) ==
    { <<Ok(body), Ok(body), Ok(body)>>,
      <<StatusError(503), Ok(body), Ok(body)>>,
      <<RequestError, StatusError(404), Ok(body)>>,
      <<StatusError(503), GeneralException, StatusError(429)>>,
      <<StatusError(404), StatusError(404), StatusError(404)>> }

(***************************************************************************)
(* Specification of one paginator run, one listing request per step.       *)
(***************************************************************************)
PagInit ==
    /\ pag \in {NewPaginator(v) : v \in Variants}
    /\ req = IdleRequest
    /\ lim = IdleLim
    /\ job = IdleJob

PagFetchPage ==
    /\ pag.pc = "loop"
    /\ pag.page_count < MaxPages
    /\ \E body \in ListingBodies(pag.page_count + 1) :
          \E resps \in TransportScripts(body) : pag' = PageStep(pag, resps)
    /\ UNCHANGED <<req, lim, job>>

PagNext == PagFetchPage

SpecPag == PagInit /\ [][PagNext]_vars

(***************************************************************************)
(* The limiter: asyncio.Semaphore(n) used through "async with semaphore".  *)
(* A semaphore is its counter; a coroutine that finds it at 0 stays        *)
(* blocked in acquire until a permit is released.                          *)
(***************************************************************************)
CustomdateSemaphore == 10
YesterdaySemaphore == 15
SkuSemaphore == 15
StockSemaphore == 15

SemaphoreLimit(variant) ==
    IF variant = "customdate" THEN CustomdateSemaphore ELSE YesterdaySemaphore

CanAcquire_always(sem) == TRUE
CanAcquire(sem) == sem > 0

Acquire(sem) == sem - 1

\* a block that is left without giving its permit back
Release_leak(sem) == sem
Release(sem) == sem + 1

(***************************************************************************)
(* Order details and components.                                           *)
(* A detail Result is [line_no, jan_cd, id], a component Result is         *)
(* [jan_cd, nfields, id] with nfields the number of its child elements.    *)
(***************************************************************************)
\* async_get_order_detail / async_get_order_component: the parsed root, or
\* None when the request failed or its body does not parse
FetchRoot(variant, resps) ==
    LET text == async_make_request(variant, resps).result
    IN  IF Falsy(text) THEN None
        ELSE IF text.kind = "bad" THEN None
        ELSE text

\* 'child.tag == "jan_cd" and child.text and child.text.strip()'
HasJanCd(result) == result.jan_cd # NoText /\ Strip(result.jan_cd) # <<>>

\* 'child.tag == "line_no" and child.text': line_no = child.text.strip()
LineNo_raw(result) == result.line_no
LineNo(result) == IF result.line_no # NoText THEN Strip(result.line_no) ELSE NoText

\* "if not has_jan_cd and line_no"
NeedsComponentFetch_any(result) == LineNo(result) # NoText
NeedsComponentFetch(result) == ~HasJanCd(result) /\ LineNo(result) # NoText

\* the <OrderDetail> elements of one order, before any component is attached
BuildDetails(results) ==
    [i \in 1..Len(results) |->
        [line_no |-> results[i].line_no, jan_cd |-> results[i].jan_cd,
         id |-> results[i].id, components |-> <<>>]]

\* component_tasks_to_run: one entry per detail line that needs a fetch, in
\* the order of the lines
RECURSIVE ScheduleComponents(_, _)
ScheduleComponents(results, i) ==
    IF i > Len(results) THEN <<>>
    ELSE (IF NeedsComponentFetch(results[i])
          THEN <<[target |-> i, line_no |-> LineNo(results[i]),
                  pc |-> "created", root |-> None]>>
          ELSE <<>>)
         \o ScheduleComponents(results, i + 1)

\* the <Component> nodes made of the Results of one component answer
ComponentNodes(variant, results) ==
    IF variant = "customdate"
    THEN SelectSeq(results, LAMBDA c : HasJanCd(c) \/ c.nfields > 0)
    ELSE results

\* the same loop giving the result that came i-th to the i-th scheduled line
RECURSIVE AttachFrom_byCompletion(_, _, _, _)
AttachFrom_byCompletion(variant, details, comps, i) ==
    IF i > Len(comps) THEN details
    ELSE LET from == CHOOSE c \in 1..Len(comps) : comps[c].rank = i
             nodes == ComponentNodes(variant, comps[from].root.results)
         IN  AttachFrom_byCompletion(variant,
                        IF comps[from].root # None /\ nodes # <<>>
                        THEN [details EXCEPT ![comps[i].target].components = nodes]
                        ELSE details,
                        comps, i + 1)

\* the loop over component_results_roots: the i-th result goes to the i-th
\* scheduled detail line
RECURSIVE AttachFrom(_, _, _, _)
AttachFrom(variant, details, comps, i) ==
    IF i > Len(comps) THEN details
    ELSE LET nodes == ComponentNodes(variant, comps[i].root.results)
         IN  AttachFrom(variant,
                        IF comps[i].root # None /\ nodes # <<>>
                        THEN [details EXCEPT ![comps[i].target].components = nodes]
                        ELSE details,
                        comps, i + 1)

AttachComponents_allOrNothing(variant, details, comps) ==
    IF \E i \in 1..Len(comps) : comps[i].root = None
    THEN details
    ELSE AttachFrom(variant, details, comps, 1)
AttachComponents(variant, details, comps) == AttachFrom(variant, details, comps, 1)

\* what process_order returns, or the exception it ends with
OrderElement(order_number, header, details) ==
    [kind |-> "element", order_number |-> order_number, header |-> header,
     details |-> details]
RaisedException == [kind |-> "exception", order_number |-> NoText, header |-> NoText,
                    details |-> <<>>]
NoElement == [kind |-> "None", order_number |-> NoText, header |-> NoText,
              details |-> <<>>]

NewTask_eager(entry) ==
    [order_number |-> entry.key, base |-> entry.rec, pc |-> "created",
     detail_root |-> None, details |-> <<>>,
     comps |-> <<[target |-> 1, line_no |-> <<"1">>, pc |-> "created", root |-> None]>>,
     result |-> [kind |-> "None", order_number |-> NoText, header |-> NoText,
                 details |-> <<>>]]
NewTask(entry) ==
    [order_number |-> entry.key, base |-> entry.rec, pc |-> "created",
     detail_root |-> None, details |-> <<>>, comps |-> <<>>, result |-> NoElement]

(***************************************************************************)
(* build_complete_order_tree                                               *)
(***************************************************************************)
\* asyncio.gather(*tasks, return_exceptions=True) returns when all are done
GatherDone_failFast(tasks) ==
    \/ \A i \in 1..Len(tasks) : tasks[i].pc = "done"
    \/ \E i \in 1..Len(tasks) : tasks[i].result.kind = "exception"
GatherDone_allSucceeded(tasks) ==
    \A i \in 1..Len(tasks) : tasks[i].pc = "done" /\ tasks[i].result.kind = "element"
GatherDone(tasks) == \A i \in 1..Len(tasks) : tasks[i].pc = "done"

\* the order in which the results are walked: "for i, result_or_exc in
\* enumerate(order_elements_results)"
AssemblyOrder_byCompletion(n, completed) ==
    completed \o SelectSeq([i \in 1..n |-> i],
                           LAMBDA i : \A j \in 1..Len(completed) : completed[j] # i)
AssemblyOrder(n, completed) == [i \in 1..n |-> i]

\* does the loop append this result to orders_root
IsAppended_withDetails(variant, result) ==
    result.kind = "element" /\ result.details # <<>>
IsAppended_always(variant, result) == result.kind = "element"
IsAppended(variant, result) ==
    /\ result.kind = "element"
    /\ variant = "yesterday" => result.details # <<>>

\* does the loop count this result in failed_order_processing_count
IsCountedFailed_exceptionsOnly(variant, result) == result.kind = "exception"
IsCountedFailed(variant, result) ==
    \/ result.kind = "exception"
    \/ variant = "yesterday" /\ ~IsAppended(variant, result)

RECURSIVE BuildTree(_, _, _, _)
BuildTree(variant, results, order, acc) ==
    IF order = <<>> THEN acc
    ELSE LET r == results[Head(order)]
             acc1 == IF IsAppended(variant, r)
                     THEN [acc EXCEPT !.orders_root = Append(@, r),
                                      !.processed_count = @ + 1]
                     ELSE IF IsCountedFailed(variant, r)
                     THEN [acc EXCEPT !.failed_count = @ + 1]
                     ELSE acc
         IN  BuildTree(variant, results, Tail(order), acc1)

EmptyTree == [orders_root |-> <<>>, processed_count |-> 0, failed_count |-> 0]

(***************************************************************************)
(* What the server may answer in a date job.                               *)
(***************************************************************************)
KC == <<"C">>
Line1 == <<"1">>
Line2 == <<" ", "2">>
Line3 == <<"3">>
Jan == <<"4", "9">>

JobListingBodies(pno) ==
    IF pno = 1
    THEN {Xml(CyclicPage(<<KA, KB>>, 2, pno)), Xml(CyclicPage(<<KC, KA, KB>>, 3, pno)),
          Xml(CyclicPage(<<KA, KB>>, FullPageSize, pno)), Xml(<<>>), BadXml}
    ELSE {Xml(CyclicPage(<<KB>>, 1, pno)), Xml(<<>>), EmptyText}

\* the detail lines of an order: order A has three lines without jan_cd and
\* one with, order B one line with jan_cd or none at all, order C one line
\* that has neither jan_cd nor line_no
DetailBodies(order_number) ==
    IF order_number = KA
    THEN {Xml(<<[line_no |-> Line1, jan_cd |-> NoText, id |-> 1],
                [line_no |-> Line2, jan_cd |-> Kblank, id |-> 2],
                [line_no |-> Line3, jan_cd |-> NoText, id |-> 3],
                [line_no |-> <<"4">>, jan_cd |-> Jan, id |-> 4]>>)}
    ELSE IF order_number = KB
    THEN {Xml(<<[line_no |-> Line1, jan_cd |-> Jan, id |-> 1]>>), Xml(<<>>), BadXml}
    ELSE {Xml(<<[line_no |-> NoText, jan_cd |-> NoText, id |-> 1]>>)}

\* the components of a detail line; their ids name the line asked for
ComponentBodies(order_number, line_no) ==
    {Xml(<<[jan_cd |-> Jan, nfields |-> 2, id |-> <<order_number, line_no, 1>>],
           [jan_cd |-> NoText, nfields |-> 0, id |-> <<order_number, line_no, 2>>]>>),
     Xml(<<>>)}

(***************************************************************************)
(* One date job: process_single_order_date (customdate) and                *)
(* process_yesterday_order_date (yesterday).                               *)
(***************************************************************************)
NewJob(variant) ==
    [variant |-> variant, pc |-> "paginate", pager |-> NewPaginator(variant),
     sem |-> 0, tasks |-> <<>>, completed |-> <<>>,
     results |-> <<>>, orders_root |-> <<>>, processed_count |-> 0,
     failed_count |-> 0, status |-> "", written |-> FALSE, uploaded |-> FALSE,
     temp_file |-> FALSE, summary |-> <<>>]

Return(j, status) == [j EXCEPT !.pc = "done", !.status = status]

\* "if not orders_data_dict: return SUCCESS_NO_ORDERS", else the start of
\* build_complete_order_tree: a fresh semaphore and one task per order
AfterPagination(j) ==
    IF j.pager.all_orders_data = <<>>
    THEN Return(j, "SUCCESS_NO_ORDERS")
    ELSE [j EXCEPT !.pc = "fanout",
                   !.sem = SemaphoreLimit(j.variant),
                   !.tasks = [i \in 1..Len(j.pager.all_orders_data) |->
                                 NewTask(j.pager.all_orders_data[i])]]

\* the end of process_order: the element it returns, unless it raised
FinishTask(j, i, details, raised) ==
    [j EXCEPT !.tasks[i].pc = "done",
              !.tasks[i].details = details,
              !.tasks[i].result =
                  IF raised THEN RaisedException
                  ELSE OrderElement(j.tasks[i].order_number, j.tasks[i].base, details),
              !.completed = Append(@, i)]

JobInit ==
    /\ job \in {NewJob(v) : v \in OrderVariants}
    /\ req = IdleRequest
    /\ pag = IdlePag
    /\ lim = IdleLim

\* the paginator issues the listing request of its next page
JobSendPage ==
    /\ job.pc = "paginate"
    /\ job.pager.pc = "loop"
    /\ job.pager.page_count + job.pager.in_flight < MaxPages
    /\ job' = [job EXCEPT !.pager = AwaitPage(@)]
    /\ UNCHANGED <<req, pag, lim>>

\* the answer to the listing request, the rest of the iteration, and what
\* follows without suspension when the paginator returns
JobFetchPageFrom(bodies) ==
    /\ job.pc = "paginate"
    /\ job.pager.in_flight > 0
    /\ \E body \in bodies :
          \E resps \in TransportScripts(body) :
             LET p == PageStep(Received(job.pager), resps)
                 j == [job EXCEPT !.pager = p]
             IN  job' = IF p.pc = "returned" THEN AfterPagination(j) ELSE j
    /\ UNCHANGED <<req, pag, lim>>

JobFetchPage == JobFetchPageFrom(JobListingBodies(job.pager.page_count + 1))

\* process_order up to its detail request: "async with semaphore" entered
TaskStart(i) ==
    /\ job.pc = "fanout"
    /\ job.tasks[i].pc = "created"
    /\ CanAcquire(job.sem)
    /\ job' = [job EXCEPT !.sem = Acquire(@), !.tasks[i].pc = "detail"]
    /\ UNCHANGED <<req, pag, lim>>

\* the detail request ends: the permit is released, the detail lines are
\* built and the component fetches scheduled; without any the order is done
DetailComplete(i) ==
    /\ job.pc = "fanout"
    /\ job.tasks[i].pc = "detail"
    /\ \E body \in DetailBodies(job.tasks[i].order_number) :
       \E resps \in TransportScripts(body) :
       \E raised \in BOOLEAN :
          LET root == FetchRoot(job.variant, resps)
              details == BuildDetails(root.results)
              comps == ScheduleComponents(root.results, 1)
              j == [job EXCEPT !.sem = Release(@),
                               !.tasks[i].detail_root = root,
                               !.tasks[i].details = details,
                               !.tasks[i].comps = comps]
          IN  job' = IF comps = <<>>
                     THEN FinishTask(j, i, details, raised)
                     ELSE [j EXCEPT !.tasks[i].pc = "gather"]
    /\ UNCHANGED <<req, pag, lim>>

\* async_get_order_component enters "async with semaphore"
CompStart(i, c) ==
    /\ job.pc = "fanout"
    /\ job.tasks[i].pc = "gather"
    /\ job.tasks[i].comps[c].pc = "created"
    /\ CanAcquire(job.sem)
    /\ job' = [job EXCEPT !.sem = Acquire(@), !.tasks[i].comps[c].pc = "inflight"]
    /\ UNCHANGED <<req, pag, lim>>

\* the component request ends and releases its permit
CompComplete(i, c) ==
    /\ job.pc = "fanout"
    /\ job.tasks[i].pc = "gather"
    /\ job.tasks[i].comps[c].pc = "inflight"
    /\ \E body \in ComponentBodies(job.tasks[i].order_number, job.tasks[i].comps[c].line_no) :
       \E resps \in TransportScripts(body) :
          job' = [job EXCEPT !.sem = Release(@),
                             !.tasks[i].comps[c].pc = "done",
                             !.tasks[i].comps[c].root = FetchRoot(job.variant, resps)]
    /\ UNCHANGED <<req, pag, lim>>

\* the gather of the component fetches returns: the results are attached
\* and process_order returns
TaskFinish(i) ==
    /\ job.pc = "fanout"
    /\ job.tasks[i].pc = "gather"
    /\ \A c \in 1..Len(job.tasks[i].comps) : job.tasks[i].comps[c].pc = "done"
    /\ \E raised \in BOOLEAN :
          job' = FinishTask(job, i,
                            AttachComponents(job.variant, job.tasks[i].details,
                                             job.tasks[i].comps),
                            raised)
    /\ UNCHANGED <<req, pag, lim>>

NoDataStatus(variant) ==
    IF variant = "customdate" THEN "SUCCESS_NO_DATA" ELSE "SUCCESS_NO_DATA_PROCESSED"

\* the gather of the order tasks returns; the loop over the results builds
\* orders_root, and the job returns at once when nothing was processed
JobBuildTree ==
    /\ job.pc = "fanout"
    /\ GatherDone(job.tasks)
    /\ LET results == [i \in 1..Len(job.tasks) |-> job.tasks[i].result]
           tree == BuildTree(job.variant, results,
                             AssemblyOrder(Len(results), job.completed), EmptyTree)
           j == [job EXCEPT !.results = results,
                            !.orders_root = tree.orders_root,
                            !.processed_count = tree.processed_count,
                            !.failed_count = tree.failed_count,
                            !.sem = 0]
       IN  job' = IF tree.processed_count = 0
                  THEN Return(j, NoDataStatus(job.variant))
                  ELSE [j EXCEPT !.pc = "output"]
    /\ UNCHANGED <<req, pag, lim>>

\* the same with an upload error that is logged and not returned
JobOutput_swallowUpload ==
    /\ job.pc = "output"
    /\ \E write_xml \in BOOLEAN :
       \E fault \in {"none", "serialize", "write", "upload"} :
          job' = IF fault = "serialize" THEN Return(job, "ERROR_SERIALIZE")
                 ELSE IF fault = "write"
                 THEN Return(job, IF write_xml THEN "ERROR_WRITE_LOCAL" ELSE "ERROR_WRITE_TEMP")
                 ELSE Return([job EXCEPT !.written = write_xml,
                                         !.uploaded = (fault = "none")],
                             "SUCCESS")
    /\ UNCHANGED <<req, pag, lim>>

\* serialisation, the local or temporary file and the upload
JobOutput ==
    /\ job.pc = "output"
    /\ \E write_xml \in BOOLEAN :
       \E fault \in {"none", "serialize", "write", "upload"} :
          job' = IF fault = "serialize" THEN Return(job, "ERROR_SERIALIZE")
                 ELSE IF fault = "write"
                 THEN Return(job, IF write_xml THEN "ERROR_WRITE_LOCAL" ELSE "ERROR_WRITE_TEMP")
                 ELSE IF fault = "upload"
                 THEN Return([job EXCEPT !.written = write_xml],
                             IF write_xml THEN "ERROR_UPLOAD" ELSE "ERROR_UPLOAD_TEMP")
                 ELSE Return([job EXCEPT !.written = write_xml, !.uploaded = TRUE],
                             "SUCCESS")
    /\ UNCHANGED <<req, pag, lim>>

JobNext ==
    \/ JobSendPage
    \/ JobFetchPage
    \/ \E i \in 1..Len(job.tasks) : TaskStart(i)
    \/ \E i \in 1..Len(job.tasks) : DetailComplete(i)
    \/ \E i \in 1..Len(job.tasks) : \E c \in 1..Len(job.tasks[i].comps) : CompStart(i, c)
    \/ \E i \in 1..Len(job.tasks) : \E c \in 1..Len(job.tasks[i].comps) : CompComplete(i, c)
    \/ \E i \in 1..Len(job.tasks) : TaskFinish(i)
    \/ JobBuildTree
    \/ JobOutput

Spec == JobInit /\ [][JobNext]_vars

(***************************************************************************)
(* main: the date job is awaited and the summary printed.  The event loop  *)
(* runs every task that is ready, and every request returns or times out,  *)
(* so a step that is possible is eventually taken.                         *)
(***************************************************************************)
\* the class in which main counts a returned status
SummaryClass(status) ==
    IF status = "SUCCESS" THEN "success"
    ELSE IF status = "SUCCESS_NO_ORDERS" THEN "no_orders"
    ELSE IF status \in {"SUCCESS_NO_DATA", "SUCCESS_NO_DATA_PROCESSED"} THEN "no_data"
    ELSE "error"

MainSummary ==
    /\ job.pc = "done"
    /\ job.summary = <<>>
    /\ job' = [job EXCEPT !.summary = <<SummaryClass(job.status)>>]
    /\ UNCHANGED <<req, pag, lim>>

\* the listings of a date with two orders at most
MainListingBodies(pno) ==
    IF pno = 1 THEN {Xml(CyclicPage(<<KA, KB>>, 2, pno)), Xml(<<>>)} ELSE {}

MainFetchPage == JobFetchPageFrom(MainListingBodies(job.pager.page_count + 1))

MainNext ==
    \/ JobSendPage
    \/ MainFetchPage
    \/ \E i \in 1..Len(job.tasks) : TaskStart(i)
    \/ \E i \in 1..Len(job.tasks) : DetailComplete(i)
    \/ \E i \in 1..Len(job.tasks) : \E c \in 1..Len(job.tasks[i].comps) : CompStart(i, c)
    \/ \E i \in 1..Len(job.tasks) : \E c \in 1..Len(job.tasks[i].comps) : CompComplete(i, c)
    \/ \E i \in 1..Len(job.tasks) : TaskFinish(i)
    \/ JobBuildTree
    \/ JobOutput
    \/ MainSummary

SpecMain == JobInit /\ [][MainNext]_vars /\ WF_vars(MainNext)

(***************************************************************************)
(* The limiter under load: the fan-out of one tree build seen through its  *)
(* semaphores only.  Each parent (process_order, process_item) makes one   *)
(* detail request (order_detail, SKU) inside "async with", then one child  *)
(* request (order_component, stock) per line that asks for one, each       *)
(* inside "async with" again.  Units are counted by position: created      *)
(* (not yet past acquire) or holding a permit with a request outstanding.  *)
(***************************************************************************)
LimVariants == {"customdate", "yesterday", "items"}

\* the semaphores created for one build, with their initial values
Semaphores(variant) ==
    IF variant = "items"
    THEN [sku_semaphore |-> SkuSemaphore, stock_semaphore |-> StockSemaphore]
    ELSE [semaphore |-> SemaphoreLimit(variant)]

\* the semaphore passed to the detail fetch and to the child fetch
DetailSemaphore(variant) == IF variant = "items" THEN "sku_semaphore" ELSE "semaphore"
ChildSemaphore(variant) == IF variant = "items" THEN "stock_semaphore" ELSE "semaphore"

NewFanOut(variant, parents) ==
    [variant |-> variant,
     sem |-> Semaphores(variant),
     parents_created |-> parents,
     details_in_flight |-> 0,
     children_created |-> 0,
     children_in_flight |-> 0]

LimInit ==
    /\ \E variant \in LimVariants, parents \in 1..MaxLimParents :
          lim = NewFanOut(variant, parents)
    /\ req = IdleRequest
    /\ pag = IdlePag
    /\ job = IdleJob

\* a parent enters "async with semaphore" and sends its detail request
LimDetailStart ==
    /\ lim.parents_created > 0
    /\ CanAcquire(lim.sem[DetailSemaphore(lim.variant)])
    /\ lim' = [lim EXCEPT !.sem[DetailSemaphore(lim.variant)] = Acquire(@),
                          !.parents_created = @ - 1,
                          !.details_in_flight = @ + 1]
    /\ UNCHANGED <<req, pag, job>>

\* the detail request ends, the permit is released, and the parent creates
\* one child fetch per line that needs one
LimDetailDone ==
    /\ lim.details_in_flight > 0
    /\ \E children \in 0..MaxLimChildren :
          lim' = [lim EXCEPT !.sem[DetailSemaphore(lim.variant)] = Release(@),
                             !.details_in_flight = @ - 1,
                             !.children_created = @ + children]
    /\ UNCHANGED <<req, pag, job>>

LimChildStart ==
    /\ lim.children_created > 0
    /\ CanAcquire(lim.sem[ChildSemaphore(lim.variant)])
    /\ lim' = [lim EXCEPT !.sem[ChildSemaphore(lim.variant)] = Acquire(@),
                          !.children_created = @ - 1,
                          !.children_in_flight = @ + 1]
    /\ UNCHANGED <<req, pag, job>>

LimChildDone ==
    /\ lim.children_in_flight > 0
    /\ lim' = [lim EXCEPT !.sem[ChildSemaphore(lim.variant)] = Release(@),
                          !.children_in_flight = @ - 1]
    /\ UNCHANGED <<req, pag, job>>

LimNext == LimDetailStart \/ LimDetailDone \/ LimChildStart \/ LimChildDone

SpecLim == LimInit /\ [][LimNext]_vars

(***************************************************************************)
(* The same fan-out on an event loop that runs every task that is ready:   *)
(* a request that is outstanding returns, fails or times out (the client   *)
(* is called with timeout=60.0), which ends its "async with" block in      *)
(* every case, and a coroutine blocked in acquire is woken when a permit   *)
(* is there.                                                               *)
(***************************************************************************)
SpecFan ==
    /\ LimInit
    /\ [][LimNext]_vars
    /\ WF_vars(LimDetailStart)
    /\ WF_vars(LimDetailDone)
    /\ WF_vars(LimChildStart)
    /\ WF_vars(LimChildDone)

(***************************************************************************)
(* main of the custom-date script: one process_single_order_date task per  *)
(* date of the range, run together by one gather.  Each of them calls      *)
(* build_complete_order_tree, which creates its semaphore; lim[d] is the   *)
(* fan-out of the d-th date.                                               *)
(***************************************************************************)
RunInit ==
    /\ \E dates \in 1..MaxRunDates :
       \E parents \in [1..dates -> 1..MaxRunParents] :
          lim = [d \in 1..dates |-> NewFanOut("customdate", parents[d])]
    /\ req = IdleRequest
    /\ pag = IdlePag
    /\ job = IdleJob

RunDetailStart(d) ==
    /\ lim[d].parents_created > 0
    /\ CanAcquire(lim[d].sem.semaphore)
    /\ lim' = [lim EXCEPT ![d].sem.semaphore = Acquire(@),
                          ![d].parents_created = @ - 1,
                          ![d].details_in_flight = @ + 1]
    /\ UNCHANGED <<req, pag, job>>

RunDetailDone(d) ==
    /\ lim[d].details_in_flight > 0
    /\ \E children \in 0..MaxRunChildren :
          lim' = [lim EXCEPT ![d].sem.semaphore = Release(@),
                             ![d].details_in_flight = @ - 1,
                             ![d].children_created = @ + children]
    /\ UNCHANGED <<req, pag, job>>

RunChildStart(d) ==
    /\ lim[d].children_created > 0
    /\ CanAcquire(lim[d].sem.semaphore)
    /\ lim' = [lim EXCEPT ![d].sem.semaphore = Acquire(@),
                          ![d].children_created = @ - 1,
                          ![d].children_in_flight = @ + 1]
    /\ UNCHANGED <<req, pag, job>>

RunChildDone(d) ==
    /\ lim[d].children_in_flight > 0
    /\ lim' = [lim EXCEPT ![d].sem.semaphore = Release(@),
                          ![d].children_in_flight = @ - 1]
    /\ UNCHANGED <<req, pag, job>>

RunNext ==
    \/ \E d \in 1..Len(lim) : RunDetailStart(d)
    \/ \E d \in 1..Len(lim) : RunDetailDone(d)
    \/ \E d \in 1..Len(lim) : RunChildStart(d)
    \/ \E d \in 1..Len(lim) : RunChildDone(d)

SpecRun == RunInit /\ [][RunNext]_vars

(***************************************************************************)
(* The paginators of the order scripts against a server that sends the     *)
(* same order_number again and again, within a page and from page to page. *)
(***************************************************************************)
KD == <<"D">>

RepeatingPatterns ==
    { <<KA, KB, KA>>, <<KB, KA>>, <<KApadded, KB, KA, NoText>>,
      <<KD, KB, KD, KA>>, <<KB, Kblank, KB>> }

RepeatingPages(pno) ==
    {CyclicPage(pat, FullPageSize, pno) : pat \in RepeatingPatterns}
    \cup {CyclicPage(pat, Len(pat), pno) : pat \in RepeatingPatterns}

DupInit ==
    /\ \E variant \in OrderVariants : pag = NewPaginator(variant)
    /\ req = IdleRequest
    /\ lim = IdleLim
    /\ job = IdleJob

\* one listing request, answered at the first attempt or after one retry
DupFetchPage ==
    /\ pag.pc = "loop"
    /\ pag.page_count < MaxPages
    /\ \E pg \in RepeatingPages(pag.page_count + 1) :
          \E resps \in {<<Ok(Xml(pg))>>, <<StatusError(503), Ok(Xml(pg))>>} :
             pag' = PageStep(pag, resps)
    /\ UNCHANGED <<req, lim, job>>

DupNext == DupFetchPage

SpecDup == DupInit /\ [][DupNext]_vars

(***************************************************************************)
(* One fetch unit, attempt by attempt: async_get_order_detail or           *)
(* async_get_order_component ("async with semaphore" around the request    *)
(* and the parse of its answer), or one iteration of the paginator (its    *)
(* request is made outside the semaphore).  req is the request of the      *)
(* unit, pag the paginator of a listing unit, job the unit and what        *)
(* process_order makes of its result.                                      *)
(***************************************************************************)
UnitKinds == {"detail", "component", "listing"}

\* "if not xml: return None / try: return ET.fromstring(xml) / except
\* ET.ParseError: return None"
ParseRoot(text) ==
    IF Falsy(text) THEN None
    ELSE IF text.kind = "bad" THEN None
    ELSE text

\* the detail line whose components a component unit fetches
UnitLine == [line_no |-> Line1, jan_cd |-> NoText, id |-> 1]

UnitBodies(kind) ==
    IF kind = "detail"
    THEN {BadXml, EmptyText, Xml(<<>>), Xml(<<UnitLine>>)}
    ELSE IF kind = "component"
    THEN {BadXml, EmptyText} \cup ComponentBodies(KA, Line1)
    ELSE {BadXml, EmptyText, Xml(<<>>), Xml(CyclicPage(<<KB, KC>>, 2, 2))}

UnitResponses(kind) == {Ok(b) : b \in UnitBodies(kind)} \cup Failures

\* the paginator of a listing unit has one full page behind it
UnitPaginator(variant) ==
    PageStep(NewPaginator(variant), <<Ok(Xml(CyclicPage(<<KA, KB>>, FullPageSize, 1)))>>)

NewUnit(variant, kind) ==
    [variant |-> variant, kind |-> kind, pc |-> "created",
     sem |-> SemaphoreLimit(variant), root |-> None,
     details |-> IF kind = "component" THEN BuildDetails(<<UnitLine>>) ELSE <<>>,
     comps |-> <<>>]

UnitInit ==
    /\ \E variant \in OrderVariants : \E kind \in UnitKinds :
          /\ job = NewUnit(variant, kind)
          /\ req = NewRequest(variant, DefaultMaxRetries, DefaultDelay)
          /\ pag = UnitPaginator(variant)
    /\ lim = IdleLim

\* "async with semaphore:" entered (detail, component); the paginator makes
\* its request without a permit
UnitAcquire ==
    /\ job.pc = "created"
    /\ job.kind = "listing" \/ CanAcquire(job.sem)
    /\ job' = [job EXCEPT !.pc = "requesting",
                          !.sem = IF job.kind = "listing" THEN @ ELSE Acquire(@)]
    /\ UNCHANGED <<req, pag, lim>>

\* one attempt of async_make_request
UnitAttempt ==
    /\ job.pc = "requesting"
    /\ req.pc = "calling"
    /\ \E resp \in UnitResponses(job.kind) : req' = AttemptStep(req, resp)
    /\ UNCHANGED <<pag, lim, job>>

\* the backoff sleep of async_make_request ends
UnitWake ==
    /\ job.pc = "requesting"
    /\ req.pc = "sleeping"
    /\ req' = WakeStep(req)
    /\ UNCHANGED <<pag, lim, job>>

\* async_make_request has returned: the answer is parsed, the permit given
\* back, and process_order (the paginator) goes on with the result
UnitFinish ==
    /\ job.pc = "requesting"
    /\ req.pc = "returned"
    /\ LET root == ParseRoot(req.result)
           j == [job EXCEPT !.pc = "done", !.root = root,
                            !.sem = IF job.kind = "listing" THEN @ ELSE Release(@)]
       IN  IF job.kind = "detail"
           THEN /\ job' = [j EXCEPT !.details = BuildDetails(root.results),
                                    !.comps = ScheduleComponents(root.results, 1)]
                /\ pag' = pag
           ELSE IF job.kind = "component"
           THEN /\ job' = [j EXCEPT !.details =
                              AttachComponents(job.variant, job.details,
                                  <<[target |-> 1, line_no |-> Line1,
                                     pc |-> "done", root |-> root]>>)]
                /\ pag' = pag
           ELSE /\ job' = j
                /\ pag' = IF job.variant = "customdate"
                          THEN StepCustomdate(pag, req.result)
                          ELSE StepYesterday(pag, req.result)
    /\ UNCHANGED <<req, lim>>

UnitNext == UnitAcquire \/ UnitAttempt \/ UnitWake \/ UnitFinish

SpecUnit == UnitInit /\ [][UnitNext]_vars

(***************************************************************************)
(* The date job against a server whose answer to a request is fixed by the *)
(* request, reached through a transport that may fail first.  lim records  *)
(* which server it is and what the transport did so far: transient is      *)
(* TRUE as long as every request met retryable failures only and then an   *)
(* answer within the attempts allowed, retried is TRUE once some request   *)
(* met a failure.                                                          *)
(***************************************************************************)
Servers == {1, 2}

ServerListing(s, pno) ==
    IF s = 1
    THEN (IF pno = 1 THEN Xml(CyclicPage(<<KB, KA>>, 2, pno)) ELSE Xml(<<>>))
    ELSE (IF pno = 1 THEN Xml(CyclicPage(<<KA>>, FullPageSize, pno))
          ELSE IF pno = 2 THEN Xml(CyclicPage(<<KB>>, 1, pno))
          ELSE Xml(<<>>))

ServerDetail(s, order_number) ==
    IF order_number = KA
    THEN Xml(<<[line_no |-> Line1, jan_cd |-> NoText, id |-> 1],
               [line_no |-> Line2, jan_cd |-> Kblank, id |-> 2],
               [line_no |-> Line3, jan_cd |-> Jan, id |-> 3]>>)
    ELSE IF s = 1 THEN Xml(<<[line_no |-> Line1, jan_cd |-> Jan, id |-> 1]>>)
    ELSE BadXml

ServerComponent(s, order_number, line_no) ==
    IF line_no = Line1
    THEN Xml(<<[jan_cd |-> Jan, nfields |-> 2, id |-> <<order_number, line_no, 1>>],
               [jan_cd |-> NoText, nfields |-> 0, id |-> <<order_number, line_no, 2>>]>>)
    ELSE Xml(<<[jan_cd |-> Jan, nfields |-> 1, id |-> <<order_number, line_no, s>>]>>)

RetryScripts(body) ==
    { <<Ok(body)>>,
      <<StatusError(503), Ok(body)>>,
      <<RequestError, GeneralException, Ok(body)>>,
      <<StatusError(429), StatusError(500), StatusError(503)>>,
      <<StatusError(404), Ok(body)>> }

\* retryable failures, then an answer, within max_retries attempts
TransientThenOk(resps) ==
    \E k \in 1..Len(resps) :
       /\ k <= DefaultMaxRetries
       /\ resps[k].kind = "ok"
       /\ \A j \in 1..(k - 1) : Retryable(resps[j])

Transport(resps) ==
    [lim EXCEPT !.transient = @ /\ TransientThenOk(resps),
                !.retried = @ \/ Head(resps).kind # "ok"]

RetryInit ==
    /\ job \in {NewJob(v) : v \in OrderVariants}
    /\ lim \in {[pc |-> "server", server |-> s, transient |-> TRUE, retried |-> FALSE] :
                   s \in Servers}
    /\ req = IdleRequest
    /\ pag = IdlePag

RetryFetchPage ==
    /\ job.pc = "paginate"
    /\ job.pager.in_flight > 0
    /\ \E resps \in RetryScripts(ServerListing(lim.server, job.pager.page_count + 1)) :
          LET p == PageStep(Received(job.pager), resps)
              j == [job EXCEPT !.pager = p]
          IN  /\ job' = IF p.pc = "returned" THEN AfterPagination(j) ELSE j
              /\ lim' = Transport(resps)
    /\ UNCHANGED <<req, pag>>

RetryDetailComplete(i) ==
    /\ job.pc = "fanout"
    /\ job.tasks[i].pc = "detail"
    /\ \E resps \in RetryScripts(ServerDetail(lim.server, job.tasks[i].order_number)) :
       \E raised \in BOOLEAN :
          LET root == FetchRoot(job.variant, resps)
              details == BuildDetails(root.results)
              comps == ScheduleComponents(root.results, 1)
              j == [job EXCEPT !.sem = Release(@),
                               !.tasks[i].detail_root = root,
                               !.tasks[i].details = details,
                               !.tasks[i].comps = comps]
          IN  /\ job' = IF comps = <<>>
                        THEN FinishTask(j, i, details, raised)
                        ELSE [j EXCEPT !.tasks[i].pc = "gather"]
              /\ lim' = Transport(resps)
    /\ UNCHANGED <<req, pag>>

RetryCompComplete(i, c) ==
    /\ job.pc = "fanout"
    /\ job.tasks[i].pc = "gather"
    /\ job.tasks[i].comps[c].pc = "inflight"
    /\ \E resps \in RetryScripts(ServerComponent(lim.server, job.tasks[i].order_number,
                                                 job.tasks[i].comps[c].line_no)) :
          /\ job' = [job EXCEPT !.sem = Release(@),
                                !.tasks[i].comps[c].pc = "done",
                                !.tasks[i].comps[c].root = FetchRoot(job.variant, resps)]
          /\ lim' = Transport(resps)
    /\ UNCHANGED <<req, pag>>

RetryNext ==
    \/ JobSendPage
    \/ RetryFetchPage
    \/ \E i \in 1..Len(job.tasks) : TaskStart(i)
    \/ \E i \in 1..Len(job.tasks) : RetryDetailComplete(i)
    \/ \E i \in 1..Len(job.tasks) : \E c \in 1..Len(job.tasks[i].comps) : CompStart(i, c)
    \/ \E i \in 1..Len(job.tasks) : \E c \in 1..Len(job.tasks[i].comps) : RetryCompComplete(i, c)
    \/ \E i \in 1..Len(job.tasks) : TaskFinish(i)
    \/ JobBuildTree
    \/ JobOutput

SpecRetry == RetryInit /\ [][RetryNext]_vars

(***************************************************************************)
(* Request signing: the head of async_make_request, which builds the query *)
(* string of a parameter dict, signs it and forms the URL.  A text is a    *)
(* sequence of characters; a parameter value is None, one text or a list   *)
(* of texts.  MD5 is taken to be free of collisions: the digest of a text  *)
(* stands for that text alone.                                             *)
(***************************************************************************)
\* the code point of a character, by which sorted() compares strings
CodePoint(ch) ==
    CASE ch = "&" -> 38 [] ch = "0" -> 48 [] ch = "1" -> 49 [] ch = "2" -> 50
      [] ch = "7" -> 55 [] ch = "=" -> 61 [] ch = "A" -> 65 [] ch = "B" -> 66
      [] ch = "_" -> 95 [] ch = "a" -> 97 [] ch = "b" -> 98 [] ch = "c" -> 99
      [] ch = "d" -> 100 [] ch = "e" -> 101 [] ch = "i" -> 105 [] ch = "k" -> 107
      [] ch = "l" -> 108 [] ch = "m" -> 109 [] ch = "n" -> 110 [] ch = "o" -> 111
      [] ch = "r" -> 114 [] ch = "t" -> 116 [] ch = "u" -> 117

\* a < b for two Python strings
RECURSIVE LexLess(_, _)
LexLess(a, b) ==
    IF b = <<>> THEN FALSE
    ELSE IF a = <<>> THEN TRUE
    ELSE IF Head(a) = Head(b) THEN LexLess(Tail(a), Tail(b))
    ELSE CodePoint(Head(a)) < CodePoint(Head(b))

RECURSIVE InsertSorted(_, _)
InsertSorted(sorted, part) ==
    IF sorted = <<>> THEN <<part>>
    ELSE IF LexLess(part, Head(sorted)) THEN <<part>> \o sorted
    ELSE <<Head(sorted)>> \o InsertSorted(Tail(sorted), part)

\* sorted(query_parts)
RECURSIVE SortedParts(_)
SortedParts(parts) ==
    IF parts = <<>> THEN <<>>
    ELSE InsertSorted(SortedParts(SubSeq(parts, 1, Len(parts) - 1)), parts[Len(parts)])

NoneValue == [kind |-> "none", items |-> <<>>]
Scalar(text) == [kind |-> "scalar", items |-> <<text>>]
ListOf(items) == [kind |-> "list", items |-> items]

\* the loop "for key, value in params.items()": f"{key}={item}" for every
\* item of a list, f"{key}={value}" for another value, nothing for None
RECURSIVE QueryParts(_)
QueryParts(params) ==
    IF params = <<>> THEN <<>>
    ELSE LET p == Head(params)
         IN  [i \in 1..Len(p.value.items) |-> p.key \o <<"=">> \o p.value.items[i]]
             \o QueryParts(Tail(params))

\* "&".join(parts)
RECURSIVE JoinParts(_)
JoinParts(parts) ==
    IF parts = <<>> THEN <<>>
    ELSE IF Len(parts) = 1 THEN parts[1]
    ELSE parts[1] \o <<"&">> \o JoinParts(Tail(parts))

\* the yesterday script joins sorted(query_parts), the custom-date script
\* joins query_parts as they are
QueryString(variant, params) ==
    IF variant = "yesterday"
    THEN JoinParts(SortedParts(QueryParts(params)))
    ELSE JoinParts(QueryParts(params))

Md5(text) == [md5 |-> text]

\* hashlib.md5(f"{query_string}{auth_key}".encode()).hexdigest()
generate_signature(query_string, auth_key) == Md5(query_string \o auth_key)

AUTH_KEY == <<"k">>

\* f"{BASE_URLS[endpoint]}?{query_string}&signing={signature}"
ApiUrl(variant, params) ==
    LET query_string == QueryString(variant, params)
    IN  [query_string |-> query_string,
         signing |-> generate_signature(query_string, AUTH_KEY)]

NoUrl == [query_string |-> <<>>, signing |-> Md5(<<>>)]

Account == <<"a", "c", "c", "o", "u", "n", "t">>
OrderNumber == <<"o", "r", "d", "e", "r", "_", "n", "u", "m", "b", "e", "r">>
LineNoKey == <<"l", "i", "n", "e", "_", "n", "o">>

\* parameter dicts as the callers build them, and one with a list and a None
SignedParams ==
    UNION {{ <<[key |-> Account, value |-> Scalar(<<"7">>)],
               [key |-> OrderNumber, value |-> Scalar(o)]>>,
             <<[key |-> Account, value |-> Scalar(<<"7">>)],
               [key |-> OrderNumber, value |-> Scalar(o)],
               [key |-> LineNoKey, value |-> Scalar(<<"2">>)]>>,
             <<[key |-> OrderNumber, value |-> Scalar(o)],
               [key |-> Account, value |-> NoneValue],
               [key |-> LineNoKey, value |-> ListOf(<<(<<"2">>), <<"1", "0">>>>)]>> }
           : o \in {KA, KB}}

Orderings(n) == {f \in [1..n -> 1..n] : \A i, j \in 1..n : f[i] = f[j] => i = j}

\* the same entries in another order, the items of a list in another order
Reordered(params) ==
    {[i \in 1..Len(params) |->
         LET p == params[f[i]]
         IN  [p EXCEPT !.value.items =
                 IF g[1] = 1 \/ Len(@) < 2 THEN @ ELSE <<@[2], @[1]>> \o SubSeq(@, 3, Len(@))]]
     : f \in Orderings(Len(params)), g \in Orderings(2)}

SignInit ==
    /\ \E variant \in OrderVariants : \E params \in SignedParams :
       \E other \in Reordered(params) :
          req = [pc |-> "first", variant |-> variant, params |-> params, other |-> other,
                 first |-> NoUrl, again |-> NoUrl, second |-> NoUrl]
    /\ pag = IdlePag
    /\ lim = IdleLim
    /\ job = IdleJob

\* a call with params
SignFirst ==
    /\ req.pc = "first"
    /\ req' = [req EXCEPT !.pc = "again", !.first = ApiUrl(req.variant, req.params)]
    /\ UNCHANGED <<pag, lim, job>>

\* another call with the same params
SignAgain ==
    /\ req.pc = "again"
    /\ req' = [req EXCEPT !.pc = "second", !.again = ApiUrl(req.variant, req.params)]
    /\ UNCHANGED <<pag, lim, job>>

\* a call with the reordered params
SignSecond ==
    /\ req.pc = "second"
    /\ req' = [req EXCEPT !.pc = "signed", !.second = ApiUrl(req.variant, req.other)]
    /\ UNCHANGED <<pag, lim, job>>

SignNext == SignFirst \/ SignAgain \/ SignSecond

SpecSign == SignInit /\ [][SignNext]_vars

(***************************************************************************)
(* The fetch units of one tree build, each seen attempt by attempt.  A     *)
(* unit is async_get_order_detail or async_get_order_component: "async     *)
(* with semaphore" around "await async_make_request(...)" and the parse of *)
(* what it returns.  Units are counted by position: created (not yet past  *)
(* acquire), in the retry loop of async_make_request after a given number  *)
(* of failed attempts (about to call, or asleep before the next attempt),  *)
(* or done.                                                                *)
(***************************************************************************)
LoopPositions ==
    {[attempts |-> a, pc |-> p] :
        a \in 0..(DefaultMaxRetries - 1), p \in {"calling", "sleeping"}}

\* the request of a unit at a position
RequestAt(variant, pos) ==
    [NewRequest(variant, DefaultMaxRetries, DefaultDelay) EXCEPT
        !.attempts = pos.attempts, !.pc = pos.pc]

PositionOf(r) == [attempts |-> r.attempts, pc |-> r.pc]

\* the semaphore after an attempt: the "async with" block is left when
\* async_make_request has returned, not before
AfterAttempt_releaseOnFailure(sem, r) == Release(sem)
AfterAttempt(sem, r) == IF r.pc = "returned" THEN Release(sem) ELSE sem

HoldResponses == {Ok(Xml(<<>>)), StatusError(503), StatusError(404), RequestError}

NewHold(variant) ==
    [pc |-> "units", variant |-> variant, sem |-> SemaphoreLimit(variant),
     created |-> SemaphoreLimit(variant) + MaxHoldExtra,
     loop |-> [pos \in LoopPositions |-> 0], done |-> 0]

HoldInit ==
    /\ \E variant \in OrderVariants : lim = NewHold(variant)
    /\ req = IdleRequest
    /\ pag = IdlePag
    /\ job = IdleJob

\* a unit enters "async with semaphore" and is about to make its first attempt
HoldAcquire ==
    /\ lim.created > 0
    /\ CanAcquire(lim.sem)
    /\ lim' = [lim EXCEPT !.sem = Acquire(@), !.created = @ - 1,
                          !.loop[[attempts |-> 0, pc |-> "calling"]] = @ + 1]
    /\ UNCHANGED <<req, pag, job>>

\* one attempt of a unit: it returns (and the unit leaves the block), or
\* goes to sleep before the next attempt
HoldAttempt(pos) ==
    /\ pos.pc = "calling"
    /\ lim.loop[pos] > 0
    /\ \E resp \in HoldResponses :
          LET r == AttemptStep(RequestAt(lim.variant, pos), resp)
              left == [lim EXCEPT !.loop[pos] = @ - 1, !.sem = AfterAttempt(@, r)]
          IN  lim' = IF r.pc = "returned"
                     THEN [left EXCEPT !.done = @ + 1]
                     ELSE [left EXCEPT !.loop[PositionOf(r)] = @ + 1]
    /\ UNCHANGED <<req, pag, job>>

\* the sleep of a unit ends
HoldWake(pos) ==
    /\ pos.pc = "sleeping"
    /\ lim.loop[pos] > 0
    /\ LET r == WakeStep(RequestAt(lim.variant, pos))
       IN  lim' = [lim EXCEPT !.loop[pos] = @ - 1, !.loop[PositionOf(r)] = @ + 1]
    /\ UNCHANGED <<req, pag, job>>

HoldNext ==
    \/ HoldAcquire
    \/ \E pos \in LoopPositions : HoldAttempt(pos)
    \/ \E pos \in LoopPositions : HoldWake(pos)

SpecHold == HoldInit /\ [][HoldNext]_vars

(***************************************************************************)
(* The second half of process_order and of process_item: the fetches of    *)
(* the children of one parent run together, end in any order, and their    *)
(* results are attached by position.  In the item script the children are  *)
(* the SKUs of the item: the field line_no of a child stands for its       *)
(* item_sku_code, the components of a child for its Stock container, and a *)
(* SKU without code gets asyncio.sleep(0, result=None) in place of a       *)
(* fetch.  rank is the position of a fetch in the order of completion.     *)
(***************************************************************************)
\* 'sku_code and sku_code.strip()': sku_code = sku_code.strip()
SkuCode(result) ==
    IF result.line_no # NoText /\ Strip(result.line_no) # <<>>
    THEN Strip(result.line_no)
    ELSE NoText

\* stock_tasks: one entry per SKU, a fetch or the placeholder
ScheduleStock(results) ==
    [i \in 1..Len(results) |->
        [target |-> i, line_no |-> SkuCode(results[i]),
         pc |-> IF SkuCode(results[i]) # NoText THEN "created" ELSE "placeholder",
         root |-> None]]

\* fetch_stock_for_sku: one client.get, the text on status 200, else None
StockText(resp) == IF resp.kind = "ok" THEN resp.body ELSE None

\* the loop over stock_responses: the i-th response goes to the i-th SKU
RECURSIVE AttachStockFrom(_, _, _)
AttachStockFrom(details, comps, i) ==
    IF i > Len(comps) THEN details
    ELSE LET text == comps[i].root
         IN  AttachStockFrom(
                 IF ~Falsy(text) /\ text.kind # "bad" /\ text.results # <<>>
                 THEN [details EXCEPT ![i].components = text.results]
                 ELSE details,
                 comps, i + 1)

AttachStock(details, comps) == AttachStockFrom(details, comps, 1)

Ranked(comps) ==
    [c \in 1..Len(comps) |->
        [target |-> comps[c].target, line_no |-> comps[c].line_no,
         pc |-> comps[c].pc, root |-> comps[c].root, rank |-> 0]]

AttachChildren ==
    LET l1 == [line_no |-> Line1, jan_cd |-> NoText, id |-> 1]
        l2 == [line_no |-> Line2, jan_cd |-> Kblank, id |-> 2]
        l3 == [line_no |-> Line3, jan_cd |-> Jan, id |-> 3]
        l4 == [line_no |-> NoText, jan_cd |-> NoText, id |-> 4]
        l5 == [line_no |-> <<"5">>, jan_cd |-> NoText, id |-> 5]
    IN  {<<l1, l2, l3>>, <<l4, l1, l5>>, <<l3, l5, l4, l2>>}

\* what the server may answer to the fetch for a child
AttachBodies(order_number, line_no) ==
    ComponentBodies(order_number, line_no)
    \cup {BadXml,
          Xml(<<[jan_cd |-> NoText, nfields |-> 0, id |-> <<order_number, line_no, 3>>]>>)}

NewAttach(variant, results) ==
    [pc |-> "gather", variant |-> variant, order_number |-> KA,
     sem |-> Semaphores(variant)[ChildSemaphore(variant)],
     details |-> BuildDetails(results),
     comps |-> Ranked(IF variant = "items" THEN ScheduleStock(results)
                      ELSE ScheduleComponents(results, 1)),
     ndone |-> 0, tasks |-> <<>>]

AttachInit ==
    /\ \E variant \in LimVariants : \E results \in AttachChildren :
          job = NewAttach(variant, results)
    /\ req = IdleRequest
    /\ pag = IdlePag
    /\ lim = IdleLim

\* the fetch of a child enters "async with semaphore"
AttachStart(c) ==
    /\ job.pc = "gather"
    /\ job.comps[c].pc = "created"
    /\ CanAcquire(job.sem)
    /\ job' = [job EXCEPT !.sem = Acquire(@), !.comps[c].pc = "inflight"]
    /\ UNCHANGED <<req, pag, lim>>

\* the fetch of a child ends
AttachComplete(c) ==
    /\ job.pc = "gather"
    /\ job.comps[c].pc = "inflight"
    /\ \E body \in AttachBodies(job.order_number, job.comps[c].line_no) :
       \E resps \in TransportScripts(body) :
          job' = [job EXCEPT !.sem = Release(@),
                             !.ndone = @ + 1,
                             !.comps[c].pc = "done",
                             !.comps[c].rank = job.ndone + 1,
                             !.comps[c].root =
                                 IF job.variant = "items" THEN StockText(Head(resps))
                                 ELSE FetchRoot(job.variant, resps)]
    /\ UNCHANGED <<req, pag, lim>>

\* asyncio.sleep(0, result=None) ends
AttachPlaceholder(c) ==
    /\ job.pc = "gather"
    /\ job.comps[c].pc = "placeholder"
    /\ job' = [job EXCEPT !.ndone = @ + 1,
                          !.comps[c].pc = "done",
                          !.comps[c].rank = job.ndone + 1]
    /\ UNCHANGED <<req, pag, lim>>

\* the gather returns and the loop over its results attaches them
AttachGather ==
    /\ job.pc = "gather"
    /\ \A c \in 1..Len(job.comps) : job.comps[c].pc = "done"
    /\ job' = [job EXCEPT !.pc = "attached",
                          !.details = IF job.variant = "items"
                                      THEN AttachStock(@, job.comps)
                                      ELSE AttachComponents(job.variant, @, job.comps)]
    /\ UNCHANGED <<req, pag, lim>>

AttachNext ==
    \/ \E c \in 1..Len(job.comps) : AttachStart(c)
    \/ \E c \in 1..Len(job.comps) : AttachComplete(c)
    \/ \E c \in 1..Len(job.comps) : AttachPlaceholder(c)
    \/ AttachGather

SpecAttach == AttachInit /\ [][AttachNext]_vars

(***************************************************************************)
(* The output stage of a job, statement by statement: what                 *)
(* process_single_order_date and process_yesterday_order_date do with the  *)
(* dict of the paginator and the results of the order tasks, and what main *)
(* of the item script does with the processed items.  job.results stands   *)
(* for what the tasks returned, one per enumerated record; the files are   *)
(* seen through local_exists (the dated file) and temp_exists (the file    *)
(* NamedTemporaryFile(delete=False) made), temp_file_path is TRUE once the *)
(* variable holds tmp.name.                                                *)
(***************************************************************************)
OutVariants == {"customdate", "yesterday", "items"}

OrdersElement(children) == [kind |-> "Orders", results |-> children]

\* what a task may have ended with: an element with a detail line, an
\* element without any, None, an exception
OutTaskResults ==
    {OrderElement(KA, NoText, BuildDetails(<<[line_no |-> Line1, jan_cd |-> Jan, id |-> 1]>>)),
     OrderElement(KB, NoText, <<>>), NoElement, RaisedException}

OutResults ==
    UNION {[1..n -> OutTaskResults] : n \in 0..MaxOutOrders}

NewOut(variant, results, date_valid) ==
    [variant |-> variant, pc |-> "start", date_valid |-> date_valid,
     results |-> results, n_orders |-> Len(results),
     orders_tree |-> None, processed_count |-> 0, final_xml_bytes |-> FALSE,
     write_xml |-> FALSE, local_exists |-> FALSE,
     temp_exists |-> FALSE, temp_file_path |-> FALSE,
     uploaded |-> FALSE, upload_successful |-> FALSE,
     remove_called |-> FALSE, remove_failed |-> FALSE,
     pending |-> "", status |-> ""]

\* the function returns a status string (main of the item script returns
\* None: its status stays empty)
OutReturn(j, status) ==
    [j EXCEPT !.pc = "done", !.status = IF j.variant = "items" THEN "" ELSE status]

\* the function ends with an exception that none of its handlers catches
OutRaise(j, exc) == [j EXCEPT !.pc = "raised", !.pending = exc]

\* an error handler of the output stage: the order scripts return the
\* status, main of the item script prints and goes on to its last lines
OutError(j, status) ==
    IF j.variant = "items" THEN [j EXCEPT !.pc = "final"] ELSE OutReturn(j, status)

\* build_complete_order_tree returns (orders_root, processed_count); in the
\* item script process_all_items returns the list of items
OutTree(variant, results) ==
    BuildTree(variant, results, AssemblyOrder(Len(results), <<>>), EmptyTree)

\* "upload_successful = True" after upload_file_to_dropbox returned
AfterUpload_noFlag(j) == [j EXCEPT !.uploaded = TRUE]
AfterUpload(j) == [j EXCEPT !.uploaded = TRUE, !.upload_successful = TRUE]

\* "temp_file_path = tmp.name" is the statement after the write
AfterTempWrite(j, written) ==
    [j EXCEPT !.temp_exists = TRUE, !.temp_file_path = written]

\* strptime of the date, an exception that only the outer handler catches,
\* the empty dict, the tree and the tests on it
OutBuild ==
    /\ job.pc = "start"
    /\ \/ /\ ~job.date_valid
          /\ job' = IF job.variant = "yesterday"
                    THEN OutReturn(job, "ERROR_INVALID_DATE_FORMAT")
                    ELSE OutRaise(job, "ValueError")
       \/ /\ job.date_valid
          /\ job' = IF job.variant = "items" THEN OutRaise(job, "Exception")
                    ELSE OutReturn(job, "ERROR_UNHANDLED")
       \/ /\ job.date_valid
          /\ job.n_orders = 0
          /\ job' = OutReturn(job, "SUCCESS_NO_ORDERS")
       \/ /\ job.date_valid
          /\ job.n_orders > 0
          /\ LET tree == OutTree(job.variant, job.results)
                 j == [job EXCEPT !.orders_tree = OrdersElement(tree.orders_root),
                                  !.processed_count = tree.processed_count]
             IN  job' = IF j.processed_count = 0 /\ j.n_orders > 0
                        THEN OutReturn(j, NoDataStatus(j.variant))
                        ELSE IF j.orders_tree = None
                        THEN OutReturn(j, "ERROR_NULL_TREE")
                        ELSE [j EXCEPT !.pc = "serialize"]
    /\ UNCHANGED <<req, pag, lim>>

\* step 3: ET.tostring, in the yesterday script only for a root that has
\* children (the item script serialises when it writes the file)
OutSerialize ==
    /\ job.pc = "serialize"
    /\ \E fault \in BOOLEAN :
          job' = IF job.orders_tree # None /\ job.processed_count > 0
                 THEN IF job.variant = "yesterday" /\ job.orders_tree.results = <<>>
                      THEN OutReturn(job, "SUCCESS_NO_DATA_IN_TREE")
                      ELSE IF fault /\ job.variant # "items"
                      THEN OutReturn(job, "ERROR_SERIALIZE")
                      ELSE [job EXCEPT !.final_xml_bytes = TRUE, !.pc = "step4"]
                 ELSE [job EXCEPT !.pc = "step4"]
    /\ UNCHANGED <<req, pag, lim>>

\* step 4: "if final_xml_bytes:" and the WRITE_XML flag
OutStep4 ==
    /\ job.pc = "step4"
    /\ \E write_xml \in BOOLEAN :
          job' = IF job.final_xml_bytes
                 THEN [job EXCEPT !.write_xml = write_xml,
                                  !.pc = IF write_xml THEN "write_local" ELSE "write_temp"]
                 ELSE [job EXCEPT !.pc = "final"]
    /\ UNCHANGED <<req, pag, lim>>

\* open(output_filename, "wb") and f.write
OutWriteLocal ==
    /\ job.pc = "write_local"
    /\ \E outcome \in {"ok", "open failed", "write failed"} :
          job' = IF outcome = "ok"
                 THEN [job EXCEPT !.local_exists = TRUE, !.pc = "upload"]
                 ELSE OutError([job EXCEPT !.local_exists = (outcome = "write failed")],
                               "ERROR_WRITE_LOCAL")
    /\ UNCHANGED <<req, pag, lim>>

\* NamedTemporaryFile(delete=False), tmp.write, temp_file_path = tmp.name;
\* an IOError goes to its handler and then to the finally clause
OutWriteTemp ==
    /\ job.pc = "write_temp"
    /\ \E outcome \in {"ok", "create failed", "write failed"} :
          job' = IF outcome = "ok"
                 THEN [AfterTempWrite(job, TRUE) EXCEPT !.pc = "upload"]
                 ELSE IF outcome = "create failed"
                 THEN [job EXCEPT !.pc = "finally", !.pending = "ERROR_WRITE_TEMP"]
                 ELSE [AfterTempWrite(job, FALSE) EXCEPT
                          !.pc = "finally", !.pending = "ERROR_WRITE_TEMP"]
    /\ UNCHANGED <<req, pag, lim>>

\* the status of an exception of upload_file_to_dropbox: IOError has its
\* handler before Exception
UploadErrorStatus(write_xml, exc) ==
    IF write_xml
    THEN (IF exc = "IOError" THEN "ERROR_WRITE_LOCAL" ELSE "ERROR_UPLOAD")
    ELSE (IF exc = "IOError" THEN "ERROR_WRITE_TEMP" ELSE "ERROR_UPLOAD_TEMP")

\* upload_file_to_dropbox returns, raises, or leaves by sys.exit(1)
OutUpload ==
    /\ job.pc = "upload"
    /\ \E outcome \in {"ok", "Exception", "IOError", "SystemExit"} :
          LET j == IF outcome = "ok" THEN AfterUpload(job) ELSE job
              pending == IF outcome = "ok" THEN ""
                         ELSE IF outcome = "SystemExit" THEN "SystemExit"
                         ELSE UploadErrorStatus(job.write_xml, outcome)
          IN  job' = IF ~job.write_xml
                     THEN [j EXCEPT !.pc = "finally", !.pending = pending]
                     ELSE IF outcome = "ok" THEN [j EXCEPT !.pc = "final"]
                     ELSE IF outcome = "SystemExit" THEN OutRaise(j, "SystemExit")
                     ELSE OutError(j, pending)
    /\ UNCHANGED <<req, pag, lim>>

\* the finally clause of the temporary-file branch, then the return or the
\* exception that was pending
OutFinally ==
    /\ job.pc = "finally"
    /\ \E remove_ok \in BOOLEAN :
          LET doit == job.temp_file_path /\ job.temp_exists
              j == IF doit
                   THEN [job EXCEPT !.remove_called = TRUE,
                                    !.temp_exists = ~remove_ok,
                                    !.remove_failed = ~remove_ok]
                   ELSE job
          IN  job' = IF job.pending = "" THEN [j EXCEPT !.pc = "final"]
                     ELSE IF job.pending = "SystemExit" THEN OutRaise(j, "SystemExit")
                     ELSE OutError([j EXCEPT !.pending = ""], job.pending)
    /\ UNCHANGED <<req, pag, lim>>

\* the last lines of the function
OutFinal ==
    /\ job.pc = "final"
    /\ job' = IF job.variant = "customdate"
              THEN OutReturn(job, IF job.final_xml_bytes THEN "SUCCESS"
                                  ELSE "SUCCESS_NO_DATA")
              ELSE IF job.final_xml_bytes
              THEN OutReturn(job, IF job.upload_successful THEN "SUCCESS"
                                  ELSE "ERROR_UNKNOWN_UPLOAD_STATE")
              ELSE OutReturn(job, IF job.processed_count > 0
                                  THEN "SUCCESS_NO_DATA_IN_TREE"
                                  ELSE "STATE_UNKNOWN")
    /\ UNCHANGED <<req, pag, lim>>

OutInit ==
    /\ \E v \in OutVariants, rs \in OutResults, ok \in BOOLEAN :
          /\ v = "items" => ok
          /\ job = NewOut(v, rs, ok)
    /\ req = IdleRequest
    /\ pag = IdlePag
    /\ lim = IdleLim

OutNext ==
    \/ OutBuild
    \/ OutSerialize
    \/ OutStep4
    \/ OutWriteLocal
    \/ OutWriteTemp
    \/ OutUpload
    \/ OutFinally
    \/ OutFinal

SpecOut == OutInit /\ [][OutNext]_vars

(***************************************************************************)
(* Producer and consumer of the order document.  The producer is           *)
(* process_order and build_complete_order_tree, whose elements are written *)
(* by ET.tostring; the consumer is parse_order_items of generate-csv.py,   *)
(* which reads the file with ET.parse.  Writing and parsing keep the tags, *)
(* the nesting and the texts, so the document is the element tree itself:  *)
(* an element is [tag, text, children].                                    *)
(***************************************************************************)
Elem(tag, children) == [tag |-> tag, text |-> NoText, children |-> children]
Leaf(tag, text) == [tag |-> tag, text |-> text, children |-> <<>>]

\* <Component>: the children of the component Result
ComponentXml(c) == Elem("Component", <<Leaf("jan_cd", c.jan_cd)>>)

\* <OrderDetail>: the children of the detail Result, then <Components>
\* when process_order attached one
DetailXml(d) ==
    Elem("OrderDetail",
         <<Leaf("line_no", d.line_no), Leaf("jan_cd", d.jan_cd)>>
         \o (IF d.components # <<>>
             THEN <<Elem("Components",
                         [c \in 1..Len(d.components) |-> ComponentXml(d.components[c])])>>
             ELSE <<>>))

\* <Order>: <OrderHeader>, then <OrderDetails> "if len(order_details_container)"
OrderXml_flat(o) ==
    Elem("Order",
         <<Elem("OrderHeader", <<>>)>>
         \o [i \in 1..Len(o.details) |-> DetailXml(o.details[i])])
OrderXml(o) ==
    Elem("Order",
         <<Elem("OrderHeader", <<>>)>>
         \o (IF o.details # <<>>
             THEN <<Elem("OrderDetails",
                         [i \in 1..Len(o.details) |-> DetailXml(o.details[i])])>>
             ELSE <<>>))

\* <Orders> with the elements build_complete_order_tree appended
OrdersXml(orders_root) ==
    Elem("Orders", [i \in 1..Len(orders_root) |-> OrderXml(orders_root[i])])

\* Element.findall(tag): the direct children with that tag
FindAll(el, tag) == SelectSeq(el.children, LAMBDA ch : ch.tag = tag)

\* Element.findtext(tag): the text of the first direct child with that tag,
\* None (here NoText) without one
FindText(el, tag) ==
    LET found == FindAll(el, tag)
    IN  IF found = <<>> THEN NoText ELSE found[1].text

RECURSIVE Concat(_)
Concat(seqs) == IF seqs = <<>> THEN <<>> ELSE Head(seqs) \o Concat(Tail(seqs))

\* the rows of one <OrderDetail>: the main line "if jan_code", then one
\* per Component "if comp_jan" of its <Components>
DetailRows(detail) ==
    LET jan_code == FindText(detail, "jan_cd")
        components == FindAll(detail, "Components")
        comps == IF components = <<>> THEN <<>> ELSE FindAll(components[1], "Component")
    IN  (IF jan_code # NoText
         THEN <<[line |-> "detail", jan_code |-> jan_code]>> ELSE <<>>)
        \o Concat([c \in 1..Len(comps) |->
                     IF FindText(comps[c], "jan_cd") # NoText
                     THEN <<[line |-> "component",
                             jan_code |-> FindText(comps[c], "jan_cd")]>>
                     ELSE <<>>])

\* parse_order_items: "for order in root.findall('Order'): for detail in
\* order.findall('OrderDetail')"
parse_order_items(root) ==
    LET orders == FindAll(root, "Order")
    IN  Concat([o \in 1..Len(orders) |->
                  LET details == FindAll(orders[o], "OrderDetail")
                  IN  Concat([d \in 1..Len(details) |-> DetailRows(details[d])])])

\* what process_order returns for an order whose detail request was
\* answered with body and whose component requests all found components
\* (full) or none
CsvOrder(variant, order_number, body, full) ==
    LET root == FetchRoot(variant, <<Ok(body)>>)
        sched == ScheduleComponents(root.results, 1)
        comps == [c \in 1..Len(sched) |->
                    [sched[c] EXCEPT
                        !.pc = "done",
                        !.root = CHOOSE b \in ComponentBodies(order_number, sched[c].line_no) :
                                    (b.results # <<>>) = full]]
    IN  OrderElement(order_number, NoText,
                     AttachComponents(variant, BuildDetails(root.results), comps))

CsvOrders(variant) ==
    {CsvOrder(variant, k, body, full) :
        k \in {KA, KB, KC}, body \in DetailBodies(KA) \cup DetailBodies(KB) \cup DetailBodies(KC),
        full \in BOOLEAN}
    \cup {RaisedException}

NewCsv(variant, results) ==
    [variant |-> variant, pc |-> "gathered", results |-> results,
     orders_root |-> <<>>, processed_count |-> 0,
     document |-> Elem("Orders", <<>>), rows |-> <<>>]

CsvInit ==
    /\ \E v \in OrderVariants, n \in 0..MaxCsvOrders :
          \E rs \in [1..n -> CsvOrders(v)] : job = NewCsv(v, rs)
    /\ req = IdleRequest
    /\ pag = IdlePag
    /\ lim = IdleLim

\* build_complete_order_tree and the file the job writes
CsvProduce ==
    /\ job.pc = "gathered"
    /\ LET tree == OutTree(job.variant, job.results)
       IN  job' = [job EXCEPT !.pc = "written",
                              !.orders_root = tree.orders_root,
                              !.processed_count = tree.processed_count,
                              !.document = OrdersXml(tree.orders_root)]
    /\ UNCHANGED <<req, pag, lim>>

\* generate-csv.py reads the file
CsvParse ==
    /\ job.pc = "written"
    /\ job' = [job EXCEPT !.pc = "parsed", !.rows = parse_order_items(job.document)]
    /\ UNCHANGED <<req, pag, lim>>

CsvNext == CsvProduce \/ CsvParse

SpecCsv == CsvInit /\ [][CsvNext]_vars

(***************************************************************************)
(* main of the custom-date script over a range of dates: the two arguments *)
(* are parsed, every date of the range is formatted as YYYY-MM-DD, one     *)
(* process_single_order_date coroutine is created per date and all are run *)
(* by one gather(return_exceptions=True); the summary counts the results.  *)
(* A date task parses its date again and names its file and its Dropbox    *)
(* path after it; its output stage has no await, so the write and the      *)
(* upload of one task are one step of the event loop.                      *)
(***************************************************************************)
Digit(n) ==
    CASE n = 0 -> "0" [] n = 1 -> "1" [] n = 2 -> "2" [] n = 3 -> "3" [] n = 4 -> "4"
      [] n = 5 -> "5" [] n = 6 -> "6" [] n = 7 -> "7" [] n = 8 -> "8" [] n = 9 -> "9"

DigitValue(ch) ==
    CASE ch = "0" -> 0 [] ch = "1" -> 1 [] ch = "2" -> 2 [] ch = "3" -> 3 [] ch = "4" -> 4
      [] ch = "5" -> 5 [] ch = "6" -> 6 [] ch = "7" -> 7 [] ch = "8" -> 8 [] ch = "9" -> 9
      [] OTHER -> -1

\* a number in w digits, zero-padded: %m, %d
RECURSIVE Pad(_, _)
Pad(n, w) == IF w = 0 THEN <<>> ELSE Pad(n \div 10, w - 1) \o <<Digit(n % 10)>>

\* %Y of strftime: the C library writes the year without padding, in four
\* digits from the year 1000 on and in fewer before
YearText(y) ==
    IF y >= 1000 THEN Pad(y, 4) ELSE IF y >= 100 THEN Pad(y, 3)
    ELSE IF y >= 10 THEN Pad(y, 2) ELSE Pad(y, 1)

RECURSIVE Number(_)
Number(t) == IF t = <<>> THEN 0 ELSE 10 * Number(SubSeq(t, 1, Len(t) - 1)) + DigitValue(t[Len(t)])

IsLeap(y) == (y % 4 = 0 /\ y % 100 # 0) \/ y % 400 = 0

DaysInMonth(y, mo) ==
    IF mo = 2 THEN (IF IsLeap(y) THEN 29 ELSE 28)
    ELSE IF mo \in {4, 6, 9, 11} THEN 30 ELSE 31

Date(y, mo, d) == [year |-> y, month |-> mo, day |-> d]
NoDate == Date(0, 0, 0)

\* date + timedelta(days=1)
NextDay(dt) ==
    IF dt.day < DaysInMonth(dt.year, dt.month) THEN Date(dt.year, dt.month, dt.day + 1)
    ELSE IF dt.month < 12 THEN Date(dt.year, dt.month + 1, 1)
    ELSE Date(dt.year + 1, 1, 1)

\* date - timedelta(days=1)
PrevDay(dt) ==
    IF dt.day > 1 THEN Date(dt.year, dt.month, dt.day - 1)
    ELSE IF dt.month > 1
    THEN Date(dt.year, dt.month - 1, DaysInMonth(dt.year, dt.month - 1))
    ELSE Date(dt.year - 1, 12, 31)

\* a <= b for two dates
DateLeq(a, b) ==
    \/ a.year < b.year
    \/ a.year = b.year /\ a.month < b.month
    \/ a.year = b.year /\ a.month = b.month /\ a.day <= b.day

\* strftime('%Y-%m-%d')
FormatDate(dt) ==
    YearText(dt.year) \o <<"-">> \o Pad(dt.month, 2) \o <<"-">> \o Pad(dt.day, 2)

\* strftime('%Y%m%d'), and what it would be without the day
DateNoDash_month(dt) == YearText(dt.year) \o Pad(dt.month, 2)
DateNoDash(dt) == YearText(dt.year) \o Pad(dt.month, 2) \o Pad(dt.day, 2)

\* strptime(text, '%Y-%m-%d').date() for a zero-padded text (%Y takes four
\* digits), NoDate for ValueError
ParseDate(text) ==
    IF /\ Len(text) = 10
       /\ text[5] = "-" /\ text[8] = "-"
       /\ \A i \in {1, 2, 3, 4, 6, 7, 9, 10} : DigitValue(text[i]) >= 0
    THEN LET y == Number(SubSeq(text, 1, 4))
             mo == Number(SubSeq(text, 6, 7))
             d == Number(SubSeq(text, 9, 10))
         IN  IF y >= 1 /\ mo \in 1..12 /\ d >= 1 /\ d <= DaysInMonth(y, mo)
             THEN Date(y, mo, d) ELSE NoDate
    ELSE NoDate

\* "while current_date <= end_date: dates_to_process.append(...)"
RECURSIVE DatesToProcess(_, _)
DatesToProcess(current_date, end_date) ==
    IF DateLeq(current_date, end_date)
    THEN <<FormatDate(current_date)>> \o DatesToProcess(NextDay(current_date), end_date)
    ELSE <<>>

\* output_filename = f"orders_{date_nodash}.xml"
OrdersPrefix == <<"o", "r", "d", "e", "r", "s", "_">>
XmlSuffix == <<".", "x", "m", "l">>
OutputFilename(dt) == OrdersPrefix \o DateNoDash(dt) \o XmlSuffix

\* dropbox_target_path = f"/Reports/order/orders_{date_nodash}.xml"
ReportsFolder == <<"/", "R", "e", "p", "o", "r", "t", "s", "/", "o", "r", "d", "e", "r">>
DropboxTargetPath(dt) == ReportsFolder \o <<"/">> \o OutputFilename(dt)

\* the position of the last ch in text, 0 without one
LastIndexOf(text, ch) ==
    IF \E i \in 1..Len(text) : text[i] = ch
    THEN CHOOSE i \in 1..Len(text) : text[i] = ch /\ \A k \in (i + 1)..Len(text) : text[k] # ch
    ELSE 0

\* os.path.dirname, os.path.basename, os.path.splitext of an absolute path
Dirname(path) ==
    LET i == LastIndexOf(path, "/")
    IN  IF i <= 1 THEN SubSeq(path, 1, i) ELSE SubSeq(path, 1, i - 1)
Basename(path) == SubSeq(path, LastIndexOf(path, "/") + 1, Len(path))
SplitExt(name) ==
    LET i == LastIndexOf(name, ".")
    IN  IF i <= 1 THEN <<name, <<>>>>
        ELSE <<SubSeq(name, 1, i - 1), SubSeq(name, i, Len(name))>>

\* upload_file_to_dropbox with add_timestamp=True: the path it uploads to,
\* now_jst being the date of the call
FinalDropboxPath(destination, now_jst) ==
    LET folder_path == Dirname(destination)
        base_ext == SplitExt(Basename(destination))
        timestamp == DateNoDash(PrevDay(now_jst))
    IN  folder_path \o <<"/">> \o base_ext[1] \o <<"_">> \o timestamp \o base_ext[2]

\* the dates given on the command line, written in four, two and two
\* digits, one of them not a date, and the days on which the run may take
\* place
CalDates ==
    {Date(999, 12, 31), Date(2023, 12, 30), Date(2023, 12, 31), Date(2024, 1, 1),
     Date(2024, 2, 28), Date(2024, 2, 29), Date(2024, 3, 1)}
DateArg(dt) == Pad(dt.year, 4) \o <<"-">> \o Pad(dt.month, 2) \o <<"-">> \o Pad(dt.day, 2)
DateArgs == {DateArg(dt) : dt \in CalDates} \cup {DateArg(Date(2024, 2, 30))}
RunDays == {Date(2024, 3, 1), Date(2024, 3, 2)}

\* the statuses process_single_order_date returns before its output stage
EarlyStatuses == {"SUCCESS_NO_ORDERS", "SUCCESS_NO_DATA", "ERROR_UNHANDLED", "ERROR_SERIALIZE"}

\* the range from a to b has n dates at most
RECURSIVE WithinDays(_, _, _)
WithinDays(a, b, n) == n > 0 /\ (a = b \/ WithinDays(NextDay(a), b, n - 1))

NewDateTask(date_str) ==
    [date_str |-> date_str, pc |-> "created", attempts |-> 0,
     result |-> "", local |-> NoText, remote |-> NoText]

NewRange(start_date_str, end_date_str, write_xml) ==
    [pc |-> "parse", start |-> start_date_str, end |-> end_date_str,
     write_xml |-> write_xml, dates_to_process |-> <<>>, tasks |-> <<>>,
     temp_files |-> 0, summary |-> <<>>,
     counts |-> [success |-> 0, no_orders |-> 0, no_data |-> 0, error |-> 0]]

RangeInit ==
    /\ \E s \in DateArgs, e \in DateArgs, write_xml \in BOOLEAN :
          /\ (ParseDate(s) # NoDate /\ ParseDate(e) # NoDate) =>
                \/ ~DateLeq(ParseDate(s), ParseDate(e))
                \/ WithinDays(ParseDate(s), ParseDate(e), MaxRangeDays)
          /\ job = NewRange(s, e, write_xml)
    /\ req = IdleRequest
    /\ pag = IdlePag
    /\ lim = IdleLim

\* the head of main: both arguments are parsed, the range is listed and
\* one coroutine is created per date
RangeParse ==
    /\ job.pc = "parse"
    /\ LET start_date == ParseDate(job.start)
           end_date == ParseDate(job.end)
           dates == DatesToProcess(start_date, end_date)
       IN  job' = IF start_date = NoDate \/ end_date = NoDate THEN [job EXCEPT !.pc = "returned"]
                  ELSE IF ~DateLeq(start_date, end_date) THEN [job EXCEPT !.pc = "returned"]
                  ELSE IF dates = <<>> THEN [job EXCEPT !.pc = "returned"]
                  ELSE [job EXCEPT !.pc = "gather",
                                   !.dates_to_process = dates,
                                   !.tasks = [i \in 1..Len(dates) |-> NewDateTask(dates[i])]]
    /\ UNCHANGED <<req, pag, lim>>

\* a date task runs up to its output stage: strptime outside the try may
\* raise, the job may return without output, or it has bytes to write
RangeTaskStart(i) ==
    /\ job.pc = "gather"
    /\ job.tasks[i].pc = "created"
    /\ \/ /\ ParseDate(job.tasks[i].date_str) = NoDate
          /\ job' = [job EXCEPT !.tasks[i].pc = "done", !.tasks[i].attempts = @ + 1,
                                !.tasks[i].result = "exception"]
       \/ /\ ParseDate(job.tasks[i].date_str) # NoDate
          /\ \E status \in EarlyStatuses :
                job' = [job EXCEPT !.tasks[i].pc = "done", !.tasks[i].attempts = @ + 1,
                                   !.tasks[i].result = status]
       \/ /\ ParseDate(job.tasks[i].date_str) # NoDate
          /\ job' = [job EXCEPT !.tasks[i].pc = "output", !.tasks[i].attempts = @ + 1]
    /\ UNCHANGED <<req, pag, lim>>

\* the name of the file the task writes: the dated file, or the name
\* mkstemp chose, which is not the name of an existing file
LocalFile(j, dt) ==
    IF j.write_xml THEN OutputFilename(dt)
    ELSE <<"t", "m", "p">> \o Pad(j.temp_files + 1, 2) \o XmlSuffix

\* the output stage of a date task: the file is written and uploaded;
\* upload_file_to_dropbox returns, raises, or calls sys.exit(1), and
\* SystemExit is not an Exception: it ends the event loop and with it main
RangeTaskOutput(i) ==
    /\ job.pc = "gather"
    /\ job.tasks[i].pc = "output"
    /\ \E outcome \in {"write failed", "ok", "Exception", "SystemExit"}, now_jst \in RunDays :
          LET dt == ParseDate(job.tasks[i].date_str)
              written == [job EXCEPT !.tasks[i].local = LocalFile(job, dt),
                                     !.temp_files = IF job.write_xml THEN @ ELSE @ + 1]
          IN  job' =
                IF outcome = "write failed"
                THEN [job EXCEPT !.tasks[i].pc = "done",
                                 !.tasks[i].result = IF job.write_xml THEN "ERROR_WRITE_LOCAL"
                                                     ELSE "ERROR_WRITE_TEMP"]
                ELSE IF outcome = "ok"
                THEN [written EXCEPT
                         !.tasks[i].pc = "done", !.tasks[i].result = "SUCCESS",
                         !.tasks[i].remote = FinalDropboxPath(DropboxTargetPath(dt), now_jst)]
                ELSE IF outcome = "Exception"
                THEN [written EXCEPT
                         !.tasks[i].pc = "done",
                         !.tasks[i].result = IF job.write_xml THEN "ERROR_UPLOAD"
                                             ELSE "ERROR_UPLOAD_TEMP"]
                ELSE [written EXCEPT !.pc = "exited", !.tasks[i].pc = "exited"]
    /\ UNCHANGED <<req, pag, lim>>

\* the class of one gathered result in the summary loop of main
RangeClass(result) ==
    IF result = "exception" THEN "error" ELSE SummaryClass(result)

CountOf(tasks, class) ==
    Cardinality({i \in 1..Len(tasks) : RangeClass(tasks[i].result) = class})

\* gather has returned: the summary loop and the final counts
RangeSummary ==
    /\ job.pc = "gather"
    /\ \A i \in 1..Len(job.tasks) : job.tasks[i].pc = "done"
    /\ job' = [job EXCEPT
                  !.pc = "returned",
                  !.summary = [i \in 1..Len(job.tasks) |-> RangeClass(job.tasks[i].result)],
                  !.counts = [success |-> CountOf(job.tasks, "success"),
                              no_orders |-> CountOf(job.tasks, "no_orders"),
                              no_data |-> CountOf(job.tasks, "no_data"),
                              error |-> CountOf(job.tasks, "error")]]
    /\ UNCHANGED <<req, pag, lim>>

RangeNext ==
    \/ RangeParse
    \/ \E i \in 1..Len(job.tasks) : RangeTaskStart(i)
    \/ \E i \in 1..Len(job.tasks) : RangeTaskOutput(i)
    \/ RangeSummary

SpecRange == RangeInit /\ [][RangeNext]_vars

(***************************************************************************)
(* The item script from end to end: fetch_all_items (synchronous, one      *)
(* httpx.get per page), then process_all_items with one process_item task  *)
(* per item, each with one SKU fetch and one stock fetch per SKU.  calls   *)
(* counts the client.get calls of a fetch, hist keeps what they met.  A    *)
(* transport script says what the server would answer to the first call    *)
(* and to further ones.  process_item of an item without item_code returns  *)
(* the item before its first await: such a task is done when it is made.   *)
(***************************************************************************)
\* fetch_sku_for_item and fetch_stock_for_sku: one client.get inside
\* "async with semaphore"; the text on status 200, None otherwise
FetchItemText_retry(resps) ==
    LET r == async_make_request("yesterday", resps)
    IN  [text |-> r.result, calls |-> r.calls, hist |-> r.hist]
FetchItemText(resps) ==
    [text |-> StockText(Head(resps)), calls |-> 1, hist |-> <<Head(resps)>>]

NoFetch == [text |-> None, calls |-> 0, hist |-> <<>>]

\* what process_item returns: the item element, with <Skus> appended or
\* as it was
ItemElement(item, skus) == [item |-> item, has_skus |-> TRUE, skus |-> skus]
ItemUnchanged(item) == [item |-> item, has_skus |-> FALSE, skus |-> <<>>]

NewItemTask(entry) ==
    [item |-> entry.rec, item_code |-> entry.key,
     pc |-> IF entry.rec.key = NoText THEN "done" ELSE "created",
     sku |-> NoFetch, skus |-> <<>>, comps |-> <<>>, stock |-> <<>>,
     result |-> ItemUnchanged(entry.rec)]

NewItemJob ==
    [variant |-> "items", pc |-> "listing", pager |-> NewPaginator("items"),
     sem |-> Semaphores("items"), tasks |-> <<>>, processed_items |-> <<>>]

\* a full page with one item_code only, a short page, an empty one
SparsePage(pno) ==
    [i \in 1..FullPageSize |->
        [key |-> IF i = 1 THEN KB ELSE NoText, id |-> pno * 1000 + i]]
ItemListingResponses(pno) ==
    {Ok(Xml(SparsePage(pno))), Ok(Xml(CyclicPage(<<KA, NoText>>, 2, pno))),
     Ok(Xml(<<>>)), Ok(BadXml), StatusError(503), RequestError}

\* the SKUs of an item and the stock of a SKU
ItemSkuBodies(item_code) ==
    {Xml(<<[line_no |-> Line1, jan_cd |-> Jan, id |-> <<item_code, 1>>]>>), BadXml}
ItemStockBodies(sku_code) ==
    {Xml(<<[jan_cd |-> NoText, nfields |-> 1, id |-> <<sku_code, 1>>]>>)}

\* what the server would answer to the first call of a fetch and to
\* further ones
ItemTransportScripts(body) ==
    { <<Ok(body), Ok(body), Ok(body)>>,
      <<StatusError(503), Ok(body), Ok(body)>>,
      <<RequestError, StatusError(404), Ok(body)>> }

\* main after fetch_all_items: "if not items: return", else the tasks of
\* process_all_items
AfterListing(j) ==
    IF j.pager.all_orders_data = <<>> THEN [j EXCEPT !.pc = "returned"]
    ELSE [j EXCEPT !.pc = "fanout",
                   !.tasks = [i \in 1..Len(j.pager.all_orders_data) |->
                                 NewItemTask(j.pager.all_orders_data[i])]]

ItemInit ==
    /\ job = NewItemJob
    /\ req = IdleRequest
    /\ pag = IdlePag
    /\ lim = IdleLim

\* one iteration of the loop of fetch_all_items
ItemFetchPage ==
    /\ job.pc = "listing"
    /\ job.pager.pc = "loop"
    /\ job.pager.page_count < MaxPages
    /\ \E resp \in ItemListingResponses(job.pager.page_count + 1) :
          LET p == PageStep(job.pager, <<resp>>)
              j == [job EXCEPT !.pager = p]
          IN  job' = IF p.pc = "returned" THEN AfterListing(j)
                     ELSE IF p.pc = "raised" THEN [j EXCEPT !.pc = "raised"]
                     ELSE j
    /\ UNCHANGED <<req, pag, lim>>

\* fetch_sku_for_item enters "async with semaphore"
ItemSkuStart(i) ==
    /\ job.pc = "fanout"
    /\ job.tasks[i].pc = "created"
    /\ CanAcquire(job.sem.sku_semaphore)
    /\ job' = [job EXCEPT !.sem.sku_semaphore = Acquire(@), !.tasks[i].pc = "sku"]
    /\ UNCHANGED <<req, pag, lim>>

\* the SKU fetch ends; process_item returns the item as it is when there is
\* no text or the text does not parse, else it schedules the stock fetches
ItemSkuDone(i) ==
    /\ job.pc = "fanout"
    /\ job.tasks[i].pc = "sku"
    /\ \E body \in ItemSkuBodies(job.tasks[i].item_code) :
       \E resps \in ItemTransportScripts(body) :
          LET sku == FetchItemText(resps)
              j == [job EXCEPT !.sem.sku_semaphore = Release(@), !.tasks[i].sku = sku]
              results == sku.text.results
              comps == ScheduleStock(results)
          IN  job' = IF Falsy(sku.text) \/ sku.text.kind = "bad"
                     THEN [j EXCEPT !.tasks[i].pc = "done"]
                     ELSE IF comps = <<>>
                     THEN [j EXCEPT !.tasks[i].pc = "done",
                                    !.tasks[i].result = ItemElement(job.tasks[i].item, <<>>)]
                     ELSE [j EXCEPT !.tasks[i].pc = "gather",
                                    !.tasks[i].skus = BuildDetails(results),
                                    !.tasks[i].comps = comps,
                                    !.tasks[i].stock = [c \in 1..Len(comps) |-> NoFetch]]
    /\ UNCHANGED <<req, pag, lim>>

\* fetch_stock_for_sku enters "async with semaphore"
ItemStockStart(i, c) ==
    /\ job.pc = "fanout"
    /\ job.tasks[i].pc = "gather"
    /\ job.tasks[i].comps[c].pc = "created"
    /\ CanAcquire(job.sem.stock_semaphore)
    /\ job' = [job EXCEPT !.sem.stock_semaphore = Acquire(@),
                          !.tasks[i].comps[c].pc = "inflight"]
    /\ UNCHANGED <<req, pag, lim>>

\* the stock fetch ends
ItemStockDone(i, c) ==
    /\ job.pc = "fanout"
    /\ job.tasks[i].pc = "gather"
    /\ job.tasks[i].comps[c].pc = "inflight"
    /\ \E body \in ItemStockBodies(job.tasks[i].comps[c].line_no) :
       \E resps \in ItemTransportScripts(body) :
          LET stock == FetchItemText(resps)
          IN  job' = [job EXCEPT !.sem.stock_semaphore = Release(@),
                                 !.tasks[i].stock[c] = stock,
                                 !.tasks[i].comps[c].pc = "done",
                                 !.tasks[i].comps[c].root = stock.text]
    /\ UNCHANGED <<req, pag, lim>>

\* the gather of the stock fetches returns, <Stock> is attached where
\* there is one, <Skus> is appended and process_item returns
ItemFinish(i) ==
    /\ job.pc = "fanout"
    /\ job.tasks[i].pc = "gather"
    /\ \A c \in 1..Len(job.tasks[i].comps) :
          job.tasks[i].comps[c].pc \in {"done", "placeholder"}
    /\ job' = [job EXCEPT
                  !.tasks[i].pc = "done",
                  !.tasks[i].result =
                      ItemElement(job.tasks[i].item,
                                  AttachStock(job.tasks[i].skus, job.tasks[i].comps))]
    /\ UNCHANGED <<req, pag, lim>>

\* the gather of process_all_items returns: processed_items in the order
\* of the tasks
ItemGather ==
    /\ job.pc = "fanout"
    /\ GatherDone(job.tasks)
    /\ job' = [job EXCEPT !.pc = "returned",
                          !.processed_items =
                              [i \in 1..Len(job.tasks) |-> job.tasks[i].result]]
    /\ UNCHANGED <<req, pag, lim>>

ItemNext ==
    \/ ItemFetchPage
    \/ \E i \in 1..Len(job.tasks) : ItemSkuStart(i)
    \/ \E i \in 1..Len(job.tasks) : ItemSkuDone(i)
    \/ \E i \in 1..Len(job.tasks) : \E c \in 1..Len(job.tasks[i].comps) : ItemStockStart(i, c)
    \/ \E i \in 1..Len(job.tasks) : \E c \in 1..Len(job.tasks[i].comps) : ItemStockDone(i, c)
    \/ \E i \in 1..Len(job.tasks) : ItemFinish(i)
    \/ ItemGather

SpecItem == ItemInit /\ [][ItemNext]_vars

(***************************************************************************)
(* Claims about the paginators (checked under SpecPag).                    *)
(***************************************************************************)
\* the Results of the pages received so far, in arrival order
RECURSIVE ConcatResults(_)
ConcatResults(seen) ==
    IF seen = <<>> THEN <<>>
    ELSE ConcatResults(SubSeq(seen, 1, Len(seen) - 1)) \o seen[Len(seen)].results

Keyed(results) == {i \in 1..Len(results) : results[i].key # NoText}

KeysOf(results) == {Strip(results[i].key) : i \in Keyed(results)}

\* the copy of key k that arrived last
LastCopy(results, k) ==
    results[CHOOSE i \in Keyed(results) :
               /\ Strip(results[i].key) = k
               /\ \A j \in Keyed(results) : Strip(results[j].key) = k => j <= i]

\* d holds exactly the keyed results, one entry per key, the latest copy
IsLastWriteWinsUnion(d, results) ==
    /\ {d[i].key : i \in 1..Len(d)} = KeysOf(results)
    /\ \A i, j \in 1..Len(d) : d[i].key = d[j].key => i = j
    /\ \A i \in 1..Len(d) : d[i].rec = LastCopy(results, d[i].key)

\* every listing answer so far was fetched and parsed, and the last one
\* holds fewer than a full page
EndsInShortPage(p) ==
    /\ p.seen # <<>>
    /\ \A i \in 1..Len(p.seen) : p.seen[i].kind = "xml"
    /\ Len(p.seen[Len(p.seen)].results) < FullPageSize

HasOwnKey(entry) == entry.rec.key # NoText

InFlight == lim.details_in_flight + lim.children_in_flight

\* the bound C1 gives for each script
ClaimedBound(variant) ==
    CASE variant = "customdate" -> 10
      [] variant = "yesterday"  -> 15
      [] variant = "items"      -> 15

RECURSIVE RunInFlight(_)
RunInFlight(d) ==
    IF d = 0 THEN 0
    ELSE lim[d].details_in_flight + lim[d].children_in_flight + RunInFlight(d - 1)

\* C18: in a run over several dates the detail and component requests in
\* flight, all dates together, never exceed 10.
C18_RunWideCap == RunInFlight(Len(lim)) <= 10

(***************************************************************************)
(* Claims about the date job (checked under Spec).                         *)
(***************************************************************************)
\* position of an order in the enumeration of the paginator
Position(order_number) ==
    CHOOSE i \in 1..Len(job.pager.all_orders_data) :
        job.pager.all_orders_data[i].key = order_number

JobBuilt == job.pc \in {"output", "done"} /\ job.tasks # <<>>

\* C2: whatever the completion order of the order tasks, the Order nodes of
\* the document follow the order in which the paginator enumerated them.
C2_OrderPreserved ==
    \A a, b \in 1..Len(job.orders_root) :
       a < b => Position(job.orders_root[a].order_number)
                   < Position(job.orders_root[b].order_number)

\* orders enumerated [C, A, B] completed in the order B, C, A and all three
\* are in the document
C2_Witness ==
    /\ job.pc = "done"
    /\ Len(job.tasks) = 3
    /\ job.completed = <<3, 1, 2>>
    /\ Len(job.orders_root) = 3

\* C3: when the tree is built every enumerated order has a finished
\* process_order task whose result, element or exception, was collected at
\* the order's index, whatever happened to the other orders.
C3_EveryParentCollected ==
    JobBuilt =>
       /\ Len(job.tasks) = Len(job.pager.all_orders_data)
       /\ Len(job.results) = Len(job.tasks)
       /\ \A i \in 1..Len(job.tasks) :
             /\ job.tasks[i].order_number = job.pager.all_orders_data[i].key
             /\ job.tasks[i].pc = "done"
             /\ job.tasks[i].result.kind \in {"element", "exception"}
             /\ job.results[i] = job.tasks[i].result

\* one order raised, another lost its detail fetch, a third one was
\* processed with its details
C3_Witness ==
    /\ JobBuilt
    /\ \E i, k, m \in 1..Len(job.tasks) :
          /\ job.tasks[i].result.kind = "exception"
          /\ job.tasks[k].result.kind = "element" /\ job.tasks[k].detail_root = None
          /\ job.tasks[m].result.kind = "element" /\ job.tasks[m].result.details # <<>>

\* exactly one of several component fetches of the order failed, and the
\* others returned components
OneComponentFetchFailed(task) ==
    /\ Len(task.comps) >= 3
    /\ Cardinality({c \in 1..Len(task.comps) : task.comps[c].root = None}) = 1
    /\ \A c \in 1..Len(task.comps) :
          task.comps[c].root # None => task.comps[c].root.results # <<>>

\* the class in which the loop of build_complete_order_tree counts order i:
\* it keeps processed_count and failed_order_processing_count, nothing else
RecordedOutcome(i) ==
    IF IsAppended(job.variant, job.results[i]) THEN "Processed"
    ELSE IF IsCountedFailed(job.variant, job.results[i]) THEN "Failed"
    ELSE "NotCounted"

SiblingsAttached(task) ==
    /\ \A c \in 1..Len(task.comps) :
          LET line == task.result.details[task.comps[c].target]
          IN  IF task.comps[c].root = None
              THEN line.components = <<>>
              ELSE /\ line.components # <<>>
                   /\ \A n \in 1..Len(line.components) :
                         /\ line.components[n].id[1] = task.order_number
                         /\ line.components[n].id[2] = LineNo(line)
    /\ \A d \in 1..Len(task.result.details) :
          (\A c \in 1..Len(task.comps) : task.comps[c].target # d) =>
             task.result.details[d].components = <<>>

C9_FailedPageKeepsParents ==
    job.pager.stop = "failed" =>
       /\ job.pager.pc = "returned"
       /\ IsLastWriteWinsUnion(job.pager.all_orders_data, ConcatResults(job.pager.seen))
       /\ job.pc # "paginate"
       /\ Len(job.tasks) = Len(job.pager.all_orders_data)
       /\ \A i \in 1..Len(job.tasks) :
             /\ job.tasks[i].order_number = job.pager.all_orders_data[i].key
             /\ job.tasks[i].base = job.pager.all_orders_data[i].rec
       /\ job.pc = "done" =>
             /\ \A i \in 1..Len(job.tasks) : job.tasks[i].pc = "done"
             /\ job.status \notin {"", "ERROR_UNHANDLED"}

\* the second listing request failed; the two orders of the first page were
\* processed and uploaded
C9_Witness ==
    /\ job.pager.stop = "failed"
    /\ job.pager.page_count = 2
    /\ job.pc = "done"
    /\ job.status = "SUCCESS"
    /\ Len(job.orders_root) = 2

\* C10: a date whose first listing page could not be fetched or parsed does
\* not end with the status of a date that has no orders.
C10_FailureDistinguished ==
    (/\ job.pc = "done"
     /\ job.pager.page_count = 1
     /\ job.pager.stop \in {"failed", "parse"}) =>
        job.status # "SUCCESS_NO_ORDERS"

\* C12: a component request of an order is issued only after the detail
\* request of that order has ended, and never when the detail fetch gave
\* nothing; the orders are not ordered among themselves.
C12_DetailBeforeComponents ==
    \A i \in 1..Len(job.tasks) :
       LET task == job.tasks[i]
       IN  /\ task.pc \in {"created", "detail"} => task.comps = <<>>
           /\ task.detail_root = None => task.comps = <<>>
           /\ \A c \in 1..Len(task.comps) :
                 task.comps[c].pc # "created" =>
                    /\ task.pc \in {"gather", "done"}
                    /\ task.detail_root # None
                    /\ task.comps[c].target \in 1..Len(task.detail_root.results)

\* a component request of one order is in flight while the detail request
\* of another is, and a third order is done without components because
\* its detail fetch failed
C12_Witness ==
    \E i, k, n \in 1..Len(job.tasks) :
       /\ \E c \in 1..Len(job.tasks[i].comps) : job.tasks[i].comps[c].pc = "inflight"
       /\ job.tasks[k].pc = "detail"
       /\ job.tasks[n].pc = "done"
       /\ job.tasks[n].detail_root = None
       /\ job.tasks[n].comps = <<>>

\* a text that has a character other than a blank
NonBlank(text) == \E k \in 1..Len(text) : text[k] # " "

\* C13: a detail line with a non-blank jan_cd never causes a component
\* request and never carries components.
C13_OnlyWithoutJan ==
    \A i \in 1..Len(job.tasks) :
       LET task == job.tasks[i]
       IN  /\ \A c \in 1..Len(task.comps) :
                 ~NonBlank(task.detail_root.results[task.comps[c].target].jan_cd)
           /\ \A d \in 1..Len(task.details) :
                 NonBlank(task.details[d].jan_cd) => task.details[d].components = <<>>
           /\ \A d \in 1..Len(task.result.details) :
                 NonBlank(task.result.details[d].jan_cd) =>
                    task.result.details[d].components = <<>>

\* an order is done whose line with a jan_cd has no components while its
\* lines without one, the blank one included, have theirs
C13_Witness ==
    \E i \in 1..Len(job.tasks) :
       LET details == job.tasks[i].result.details
       IN  /\ job.tasks[i].pc = "done"
           /\ \E d \in 1..Len(details) :
                 NonBlank(details[d].jan_cd) /\ details[d].components = <<>>
           /\ \E d \in 1..Len(details) :
                 details[d].jan_cd = Kblank /\ details[d].components # <<>>
           /\ \E d \in 1..Len(details) :
                 details[d].jan_cd = NoText /\ details[d].components # <<>>

\* the component fetches of a finished order that were made for line d
FetchesFor(task, d) ==
    {c \in 1..Len(task.comps) : task.comps[c].target = d /\ task.comps[c].pc = "done"}

\* the text without the blanks around it
Trimmed(text) ==
    IF ~NonBlank(text) THEN <<>>
    ELSE LET first == CHOOSE k \in 1..Len(text) :
                         text[k] # " " /\ \A n \in 1..(k - 1) : text[n] = " "
             last == CHOOSE k \in 1..Len(text) :
                        text[k] # " " /\ \A n \in (k + 1)..Len(text) : text[n] = " "
         IN  SubSeq(text, first, last)

DetailResolved(task) == task.pc = "done" /\ task.detail_root # None

\* original statement of C14: every line without a jan_cd gets exactly one
\* component fetch, whatever its line_no.
C14_EveryExpandableLine ==
    \A i \in 1..Len(job.tasks) :
       DetailResolved(job.tasks[i]) =>
          \A d \in 1..Len(job.tasks[i].detail_root.results) :
             ~NonBlank(job.tasks[i].detail_root.results[d].jan_cd) =>
                Cardinality(FetchesFor(job.tasks[i], d)) = 1

\* C14 (amended): a line gets exactly one component fetch when its jan_cd
\* is absent or blank and its line_no is not; the fetch is made with the
\* line_no stripped of blanks.  A line without jan_cd whose line_no is
\* absent or blank gets no component fetch.
C14_OneFetchPerNumberedLine ==
    \A i \in 1..Len(job.tasks) :
       DetailResolved(job.tasks[i]) =>
          \A d \in 1..Len(job.tasks[i].detail_root.results) :
             LET line == job.tasks[i].detail_root.results[d]
                 fetches == FetchesFor(job.tasks[i], d)
             IN  IF ~NonBlank(line.jan_cd) /\ NonBlank(line.line_no)
                 THEN /\ Cardinality(fetches) = 1
                      /\ \A c \in fetches :
                            job.tasks[i].comps[c].line_no = Trimmed(line.line_no)
                 ELSE fetches = {}

\* order A is done with one fetch for each of its three numbered lines
\* without jan_cd, order C is done without any for its line that has
\* neither jan_cd nor line_no
C14_Witness ==
    \E i, k \in 1..Len(job.tasks) :
       /\ DetailResolved(job.tasks[i])
       /\ Len(job.tasks[i].comps) = 3
       /\ \A d \in 1..3 : Cardinality(FetchesFor(job.tasks[i], d)) = 1
       /\ DetailResolved(job.tasks[k])
       /\ \E d \in 1..Len(job.tasks[k].detail_root.results) :
             /\ job.tasks[k].detail_root.results[d].jan_cd = NoText
             /\ job.tasks[k].detail_root.results[d].line_no = NoText
             /\ FetchesFor(job.tasks[k], d) = {}

\* the orders before order i whose process_order returned an element
ElementsBefore(i) ==
    {k \in 1..(i - 1) : job.results[k].kind = "element"}

\* C15: in the custom-date script an order whose detail fetch failed for
\* good is in the document as an Order node with its header and no
\* details, at its place in the enumeration, and is counted as processed.
C15_HeaderOnlyOrder ==
    \A i \in 1..Len(job.tasks) :
       (/\ job.variant = "customdate"
        /\ JobBuilt
        /\ job.tasks[i].detail_root = None
        /\ job.results[i].kind = "element") =>
          LET a == Cardinality(ElementsBefore(i)) + 1
          IN  /\ a <= Len(job.orders_root)
              /\ job.orders_root[a].order_number = job.pager.all_orders_data[i].key
              /\ job.orders_root[a].header = job.pager.all_orders_data[i].rec
              /\ job.orders_root[a].details = <<>>
              /\ job.processed_count = Len(job.orders_root)
              /\ job.processed_count =
                    Cardinality({k \in 1..Len(job.results) : job.results[k].kind = "element"})

\* the second of three orders lost its detail fetch and is the second,
\* header-only node of the uploaded document
C15_Witness ==
    /\ job.variant = "customdate"
    /\ job.pc = "done"
    /\ job.status = "SUCCESS"
    /\ Len(job.tasks) = 3
    /\ job.tasks[2].detail_root = None
    /\ Len(job.orders_root) = 3
    /\ job.orders_root[2].details = <<>>
    /\ job.orders_root[1].details # <<>>
    /\ job.processed_count = 3

InDocument(i) ==
    \E a \in 1..Len(job.orders_root) :
       job.orders_root[a].order_number = job.pager.all_orders_data[i].key

ProducedDetail(i) ==
    job.results[i].kind = "element" /\ job.tasks[i].details # <<>>

\* C16: in the yesterday script an enumerated order is in the document if
\* and only if its processing produced an OrderDetail; an order whose
\* detail fetch failed, did not parse or had no records is left out and
\* counted as failed.
C16_OmittedWithoutDetail ==
    (job.variant = "yesterday" /\ JobBuilt) =>
       /\ \A i \in 1..Len(job.tasks) :
             /\ InDocument(i) <=> ProducedDetail(i)
             /\ (job.tasks[i].detail_root = None \/ job.tasks[i].detail_root.results = <<>>)
                   => ~InDocument(i)
       /\ job.processed_count =
             Cardinality({i \in 1..Len(job.tasks) : ProducedDetail(i)})
       /\ job.failed_count =
             Cardinality({i \in 1..Len(job.tasks) : ~ProducedDetail(i)})
       /\ Len(job.orders_root) = job.processed_count

\* of three orders one lost its detail fetch, one had a detail answer
\* without records, and the third alone is in the uploaded document
C16_Witness ==
    /\ job.variant = "yesterday"
    /\ job.pc = "done"
    /\ job.status = "SUCCESS"
    /\ \E i, k, n \in 1..Len(job.tasks) :
          /\ job.tasks[i].detail_root = None /\ job.results[i].kind = "element"
          /\ job.tasks[k].detail_root # None /\ job.tasks[k].detail_root.results = <<>>
          /\ ProducedDetail(n)
    /\ Len(job.orders_root) = 1
    /\ job.failed_count = 2

\* the orders whose node belongs in the document of the job
ExpectedNodes ==
    {i \in 1..Len(job.results) :
        IF job.variant = "customdate" THEN job.results[i].kind = "element"
        ELSE ProducedDetail(i)}

Visible == job.written \/ job.uploaded \/ job.temp_file

AllTasksDone == \A i \in 1..Len(job.tasks) : job.tasks[i].pc = "done"

\* C17: the file is written and uploaded only when every process_order
\* task of the date has finished, and what is written is the whole
\* document.
C17_VisibleAfterAllTasks ==
    /\ [][(~Visible /\ Visible') => (AllTasksDone /\ job.pc = "output")]_vars
    /\ [](Visible =>
             /\ AllTasksDone
             /\ job.tasks # <<>>
             /\ Len(job.orders_root) = Cardinality(ExpectedNodes)
             /\ \A i \in ExpectedNodes : InDocument(i))

\* the document of three orders, the last of which finished first, is
\* written and uploaded
C17_Witness ==
    /\ job.written
    /\ job.uploaded
    /\ Len(job.tasks) = 3
    /\ AllTasksDone
    /\ job.completed[1] = 3
    /\ Len(job.orders_root) >= 2

\* C19: the listing requests of a date job are made one after the other,
\* the next one only when the answer to the one before has been handled,
\* and no detail or component request is made while the paginator runs.
C19_ListingSequential ==
    /\ [](/\ job.pager.in_flight <= 1
          /\ Len(job.pager.seen) = job.pager.page_count
          /\ Len(job.pager.sent) = job.pager.page_count
          /\ job.tasks # <<>> => (job.pager.pc = "returned" /\ job.pager.in_flight = 0))
    /\ [][job.pager' # job.pager => (job.pc = "paginate" /\ job.tasks = <<>>)]_vars
    /\ [][job.pager'.in_flight > job.pager.in_flight =>
             (job.pager.in_flight = 0 /\ job.pager.pc = "loop")]_vars

\* the request for the second page is in flight, the first page handled
C19_Witness ==
    /\ job.pager.in_flight = 1
    /\ job.pager.page_count = 1
    /\ Len(job.pager.seen[1].results) = FullPageSize
    /\ job.tasks = <<>>

\* what became of order i: Failed when process_order raised or got no
\* detail, Partial when a component fetch of it gave nothing, else Complete
ActualOutcome(i) ==
    IF job.results[i].kind # "element" \/ job.tasks[i].detail_root = None THEN "Failed"
    ELSE IF \E c \in 1..Len(job.tasks[i].comps) : job.tasks[i].comps[c].root = None
    THEN "Partial"
    ELSE "Complete"

CountedAs(class) == {i \in 1..Len(job.results) : RecordedOutcome(i) = class}

NothingWritten == ~job.written /\ ~job.uploaded /\ ~job.temp_file
C31_OutputOnlyWithOrders ==
    /\ ~NothingWritten => job.processed_count > 0 /\ job.orders_root # <<>>
    /\ job.pc = "output" => job.processed_count > 0
    /\ (job.pc = "done" /\ job.pager.all_orders_data = <<>>) =>
          job.status = "SUCCESS_NO_ORDERS" /\ NothingWritten
    /\ (job.pc = "done" /\ job.pager.all_orders_data # <<>> /\ job.processed_count = 0) =>
          job.status = NoDataStatus(job.variant) /\ NothingWritten
    /\ job.status \in {"SUCCESS_NO_ORDERS", NoDataStatus(job.variant)} => NothingWritten
    /\ job.status = "SUCCESS" => job.uploaded /\ job.processed_count > 0

\* a date with two orders of which one was processed: written and uploaded
C31_Witness ==
    /\ job.pc = "done"
    /\ job.status = "SUCCESS"
    /\ job.uploaded
    /\ Len(job.pager.all_orders_data) = 2
    /\ job.processed_count = 1

(***************************************************************************)
(* Claims about the cursor of the paginators (checked under SpecPag).      *)
(***************************************************************************)
LastRecordKey(body) == body.results[Len(body.results)].key

\* C20: the cursor sent with the request for page k+1 is the key of the
\* last record of page k; a page whose last record has no key does not
\* move the cursor (both order scripts).
C20_CursorIsLastKey ==
    pag.variant \in OrderVariants =>
       \A k \in 1..(Len(pag.sent) - 1) :
          IF NonBlank(LastRecordKey(pag.seen[k]))
          THEN pag.sent[k + 1] = Trimmed(LastRecordKey(pag.seen[k]))
          ELSE pag.sent[k + 1] = pag.sent[k]

(***************************************************************************)
(* Claims about the end of pagination (checked under SpecPag).             *)
(***************************************************************************)
\* a parsed page of exactly 100 records whose last record carries an
\* order_number
IsFullKeyedPage(body) ==
    /\ body.kind = "xml"
    /\ Len(body.results) = 100
    /\ NonBlank(LastRecordKey(body))

C22_LatestCopyFirstPosition ==
    LET all == ConcatResults(pag.seen)
        n == Len(all)
        d == pag.all_orders_data
        keyed == Keyed(all)
        ks == [i \in 1..n |-> Strip(all[i].key)]
        IsCopy(i, k) == i \in keyed /\ ks[i] = k
        last(k) == CHOOSE i \in 1..n :
                      IsCopy(i, k) /\ \A j \in (i + 1)..n : ~IsCopy(j, k)
        first(k) == CHOOSE i \in 1..n :
                       IsCopy(i, k) /\ \A j \in 1..(i - 1) : ~IsCopy(j, k)
    IN  /\ {d[e].key : e \in 1..Len(d)} = {ks[i] : i \in keyed}
        /\ \A e, f \in 1..Len(d) : d[e].key = d[f].key => e = f
        /\ \A e \in 1..Len(d) : d[e].rec = all[last(d[e].key)]
        /\ \A e \in 1..(Len(d) - 1) : first(d[e].key) < first(d[e + 1].key)

\* three keys over two pages, each of them received again after the others,
\* within the first page and on the second page: every entry holds a copy
\* of the second page, and the first entry is the key that came first
C22_Witness ==
    /\ Len(pag.seen) >= 2
    /\ Len(pag.all_orders_data) >= 3
    /\ pag.all_orders_data[1].key = Strip(pag.seen[1].results[1].key)
    /\ Strip(pag.seen[1].results[3].key) = pag.all_orders_data[1].key
    /\ Strip(pag.seen[2].results[1].key) # pag.all_orders_data[1].key
    /\ \A e \in 1..Len(pag.all_orders_data) :
          pag.all_orders_data[e].rec.id > 2000

(***************************************************************************)
(* Claims about one fetch unit (checked under SpecUnit).                   *)
(***************************************************************************)
\* the answers the unit has received that came with status 200
BodiesReceived == {k \in 1..Len(req.hist) : req.hist[k].kind = "ok"}

ReceivedUnparsable ==
    /\ req.hist # <<>>
    /\ req.hist[Len(req.hist)] = Ok(BadXml)

FetchFailed == req.pc = "returned" /\ BodiesReceived = {}

\* C23: a body that does not parse ends its fetch unit: no attempt follows
\* the attempt that received it, and the unit ends as the unit of a failed
\* request ends.  A detail unit gives None, hence no detail line and no
\* component fetch; a component unit gives None, hence no Components under
\* its detail line; a listing unit stops the paginator, which keeps the
\* records of the pages before.
C23_UnparsableIsTerminal ==
    /\ \A k \in BodiesReceived : k = Len(req.hist) /\ req.pc = "returned"
    /\ (job.pc = "done" /\ (ReceivedUnparsable \/ FetchFailed)) =>
          /\ job.root = None
          /\ job.kind = "detail" => job.details = <<>> /\ job.comps = <<>>
          /\ job.kind = "component" =>
                /\ Len(job.details) = 1
                /\ job.details[1].components = <<>>
          /\ job.kind = "listing" =>
                /\ pag.pc = "returned"
                /\ pag.stop = IF ReceivedUnparsable THEN "parse" ELSE "failed"
                /\ pag.all_orders_data = UnitPaginator(job.variant).all_orders_data
                /\ pag.all_orders_data # <<>>

\* a unit that met a failure, then slept, then received a body that does
\* not parse, and is done
C23_Witness ==
    /\ job.pc = "done"
    /\ ReceivedUnparsable
    /\ Len(req.hist) = 2
    /\ req.slept # <<>>

(***************************************************************************)
(* Claims about retried requests in a date job (checked under SpecRetry).  *)
(***************************************************************************)
\* the paginator of a run in which every request is answered at once
RECURSIVE CleanPages(_, _)
CleanPages(p, s) ==
    IF p.pc # "loop" \/ p.page_count >= MaxPages THEN p
    ELSE CleanPages(PageStep(p, <<Ok(ServerListing(s, p.page_count + 1))>>), s)

\* what process_order returns in such a run
CleanOrder(variant, s, entry) ==
    LET root == FetchRoot(variant, <<Ok(ServerDetail(s, entry.key))>>)
        scheduled == ScheduleComponents(root.results, 1)
        comps == [c \in 1..Len(scheduled) |->
                     [scheduled[c] EXCEPT
                         !.pc = "done",
                         !.root = FetchRoot(variant,
                                     <<Ok(ServerComponent(s, entry.key,
                                                          scheduled[c].line_no))>>)]]
    IN  OrderElement(entry.key, entry.rec,
                     AttachComponents(variant, BuildDetails(root.results), comps))

\* the document and the counts of such a run
CleanTree(variant, s) ==
    LET d == CleanPages(NewPaginator(variant), s).all_orders_data
        results == [i \in 1..Len(d) |-> CleanOrder(variant, s, d[i])]
    IN  BuildTree(variant, results, AssemblyOrder(Len(results), <<>>), EmptyTree)

NoTaskRaised ==
    \A i \in 1..Len(job.tasks) : job.tasks[i].result.kind # "exception"

\* C24: when every request of a date job met nothing but retryable failures
\* followed by an answer within the three attempts, and no process_order
\* raised, the job ends with the document and the counts of the run in
\* which the same server answers every request at the first attempt:
\* the same orders in the same order, the same Components under the same
\* detail lines, the same processed and failed counts.
C24_RetriesLeaveNoTrace ==
    (job.pc \in {"output", "done"} /\ lim.transient /\ NoTaskRaised) =>
       LET clean == CleanTree(job.variant, lim.server)
       IN  /\ job.orders_root = clean.orders_root
           /\ job.processed_count = clean.processed_count
           /\ job.failed_count = clean.failed_count

\* a job that ended in SUCCESS after retries, with two orders in its
\* document, one of them with Components
C24_Witness ==
    /\ job.status = "SUCCESS"
    /\ lim.transient
    /\ lim.retried
    /\ NoTaskRaised
    /\ Len(job.orders_root) = 2
    /\ \E i \in 1..2 : \E l \in 1..Len(job.orders_root[i].details) :
          Len(job.orders_root[i].details[l].components) = 2

C26_Deterministic ==
    req.pc = "signed" =>
       /\ req.again = req.first
       /\ req.first.signing = generate_signature(req.first.query_string, AUTH_KEY)
       /\ req.second.signing = generate_signature(req.second.query_string, AUTH_KEY)
       /\ req.variant = "yesterday" => req.second = req.first

(***************************************************************************)
(* Claims about permits and retries (checked under SpecHold).              *)
(***************************************************************************)
RECURSIVE SumOver(_, _)
SumOver(f, S) ==
    IF S = {} THEN 0
    ELSE LET x == CHOOSE y \in S : TRUE IN f[x] + SumOver(f, S \ {x})

\* the units that are in the retry loop, about to attempt or backing off
InRetryLoop == SumOver(lim.loop, LoopPositions)

BackingOff == SumOver(lim.loop, {pos \in LoopPositions : pos.pc = "sleeping"})

\* C27: every unit that is in its retry loop, between its first attempt
\* and its final outcome, holds one permit, also while it sleeps before
\* the next attempt, and no other unit holds one: the permits out are as
\* many as the units in the loop, so these are never more than the bound
\* of the limiter; a unit that only moves from one attempt to the next
\* leaves the semaphore as it is.
C27_PermitHeldThroughRetries ==
    /\ lim.sem + InRetryLoop = SemaphoreLimit(lim.variant)
    /\ InRetryLoop <= SemaphoreLimit(lim.variant)
    /\ lim.created + InRetryLoop + lim.done = SemaphoreLimit(lim.variant) + MaxHoldExtra

\* all permits out, a unit waiting for one, and some holder asleep after
\* its second failed attempt
C27_Witness ==
    /\ lim.sem = 0
    /\ lim.created > 0
    /\ InRetryLoop = SemaphoreLimit(lim.variant)
    /\ lim.loop[[attempts |-> 2, pc |-> "sleeping"]] > 0
    /\ BackingOff = SemaphoreLimit(lim.variant)

(***************************************************************************)
(* Claims about the progress of the fan-out (checked under SpecFan).       *)
(***************************************************************************)
\* the units that hold a permit of semaphore s
HoldersOf(s) ==
    (IF DetailSemaphore(lim.variant) = s THEN lim.details_in_flight ELSE 0)
    + (IF ChildSemaphore(lim.variant) = s THEN lim.children_in_flight ELSE 0)

PermitsConserved ==
    \A s \in DOMAIN lim.sem : lim.sem[s] + HoldersOf(s) = Semaphores(lim.variant)[s]

Waiting == lim.parents_created + lim.children_created

FanOutFinished ==
    /\ Waiting = 0
    /\ lim.details_in_flight = 0
    /\ lim.children_in_flight = 0

AllPermitsFree == lim.sem = Semaphores(lim.variant)

\* C28: in all three scripts the permits out are at every moment the
\* permits of the requests outstanding; child requests come into being in
\* the step in which their parent gives its detail permit back, so no unit
\* asks for a permit while it holds one; whenever units wait, some unit can
\* move; every unit that waits for a permit gets it, so the fan-out
\* finishes, and all permits are free again when it has.
C28_NoDeadlockNoLeak ==
    /\ [](PermitsConserved)
    /\ [][lim'.children_created > lim.children_created =>
             /\ lim'.details_in_flight = lim.details_in_flight - 1
             /\ lim'.sem[DetailSemaphore(lim.variant)]
                   = lim.sem[DetailSemaphore(lim.variant)] + 1]_vars
    /\ []((Waiting > 0 /\ \E s \in DOMAIN lim.sem : lim.sem[s] = 0) =>
             lim.details_in_flight + lim.children_in_flight > 0)
    /\ [](FanOutFinished => AllPermitsFree)
    /\ <>[](FanOutFinished /\ AllPermitsFree)

\* more parents than permits: every permit is out and a parent waits
C28_Witness ==
    /\ lim.parents_created > 0
    /\ lim.children_created > 0
    /\ lim.sem[DetailSemaphore(lim.variant)] = 0
    /\ lim.sem[ChildSemaphore(lim.variant)] = 0

(***************************************************************************)
(* Claims about when the paginators stop (checked under SpecPag).          *)
(***************************************************************************)
NoRecordKeyed(results) == \A i \in 1..Len(results) : results[i].key = NoText

\* the last of the records that have an order_number has a blank one
LastKeyIsBlank(results) ==
    \E i \in 1..Len(results) :
       /\ results[i].key # NoText
       /\ ~NonBlank(results[i].key)
       /\ \A j \in (i + 1)..Len(results) : results[j].key = NoText

\* the page gives the script no key to go on with: the custom-date script
\* looks whether the last record has an order_number, the yesterday script
\* takes the last order_number of the page and wants it not blank, and
\* fetch_all_items does not look
NoUsableKey(variant, results) ==
    IF variant = "customdate" THEN results[Len(results)].key = NoText
    ELSE IF variant = "yesterday" THEN NoRecordKeyed(results) \/ LastKeyIsBlank(results)
    ELSE FALSE

\* the request failed, the body did not parse, the page was empty or short
EndOfData(body) ==
    \/ body.kind # "xml"
    \/ Len(body.results) < 100

\* original statement of C29: each of the three paginators stops exactly in
\* the iteration whose request failed, whose body did not parse, whose
\* page was empty or shorter than 100, or whose page gave no key for the
\* cursor, and goes on after every other page.
C29_StopsOnFiveConditions ==
    pag.seen # <<>> =>
       /\ pag.page_count = Len(pag.seen)
       /\ \A j \in 1..Len(pag.seen) :
             (j = Len(pag.seen) /\ pag.pc # "loop")
                <=> \/ EndOfData(pag.seen[j])
                    \/ IF pag.variant = "items"
                       THEN NoRecordKeyed(pag.seen[j].results)
                       ELSE NoUsableKey(pag.variant, pag.seen[j].results)

\* C29 (amended): the paginators of the order scripts stop exactly in the
\* iteration whose request failed, whose body did not parse, whose page
\* was empty or shorter than 100, or whose page gave no key for the cursor
\* (custom-date: the last record has no order_number; yesterday: no record
\* has one, or the last that has one has a blank one); fetch_all_items
\* stops on the first four only.  After any
\* other page all three go on to a further request, without a bound on the
\* pages and whether or not the cursor has changed.
C29_StopsExactly ==
    pag.seen # <<>> =>
       /\ pag.page_count = Len(pag.seen)
       /\ \A j \in 1..Len(pag.seen) :
             (j = Len(pag.seen) /\ pag.pc # "loop")
                <=> (EndOfData(pag.seen[j]) \/ NoUsableKey(pag.variant, pag.seen[j].results))

\* three full pages with the same last key: the cursor sent was the same
\* twice and the paginator is about to ask again
C29_Witness ==
    /\ pag.page_count = 3
    /\ pag.pc = "loop"
    /\ \A j \in 1..3 : pag.seen[j].kind = "xml" /\ Len(pag.seen[j].results) = 100
    /\ pag.sent[2] = pag.sent[3]
    /\ pag.last_order_number = pag.sent[3]

(***************************************************************************)
(* Claims about the attachment of grandchildren (checked under SpecAttach).*)
(***************************************************************************)
\* the key under which child d is asked for: its trimmed line_no, its
\* trimmed item_sku_code
RequestedKey(d) == Trimmed(job.details[d].line_no)

\* the records of the answer comps[c] got, none when it failed or did not
\* parse
RecordsOf(c) ==
    IF job.comps[c].root.kind = "xml" THEN job.comps[c].root.results ELSE <<>>

FetchedFor(d) ==
    {c \in 1..Len(job.comps) : job.comps[c].target = d /\ job.comps[c].line_no # NoText}

\* C30: when the fetches of the children of a parent have ended, in
\* whatever order, the result of the i-th scheduled fetch is under the
\* i-th scheduled child and nowhere else: a child has a container only if
\* a fetch was made for it and returned at least one record, what is in
\* the container are records of that answer, asked for under the key of
\* that child, and a child without fetch, or with the placeholder, has no
\* container.  No child has two fetches.
C30_AttachedToRequester ==
    job.pc = "attached" =>
       /\ \A c \in 1..(Len(job.comps) - 1) : job.comps[c].target < job.comps[c + 1].target
       /\ \A d \in 1..Len(job.details) :
             LET nodes == job.details[d].components
             IN  /\ Cardinality(FetchedFor(d)) <= 1
                 /\ FetchedFor(d) = {} => nodes = <<>>
                 /\ \A c \in FetchedFor(d) :
                       /\ RecordsOf(c) = <<>> => nodes = <<>>
                       /\ job.variant # "customdate" => nodes = RecordsOf(c)
                       /\ \A n \in 1..Len(nodes) :
                             /\ \E k \in 1..Len(RecordsOf(c)) : nodes[n] = RecordsOf(c)[k]
                             /\ nodes[n].id[1] = job.order_number
                             /\ nodes[n].id[2] = RequestedKey(d)

\* three fetches that ended in the reverse of the order in which they were
\* scheduled, two of them with records, and a child without a fetch
C30_Witness ==
    /\ job.pc = "attached"
    /\ Len(job.comps) >= 3
    /\ \E a, b, c \in 1..Len(job.comps) :
          /\ a < b /\ b < c
          /\ job.comps[a].rank > job.comps[b].rank
          /\ job.comps[b].rank > job.comps[c].rank
          /\ job.details[job.comps[a].target].components # <<>>
          /\ job.details[job.comps[c].target].components # <<>>
    /\ \E d \in 1..Len(job.details) : FetchedFor(d) = {}

(***************************************************************************)
(* Claims about the output stage (checked under SpecOut).                  *)
(***************************************************************************)
YesterdayStatuses ==
    {"SUCCESS", "SUCCESS_NO_ORDERS", "SUCCESS_NO_DATA_PROCESSED",
     "ERROR_INVALID_DATE_FORMAT", "ERROR_SERIALIZE", "ERROR_WRITE_LOCAL",
     "ERROR_UPLOAD", "ERROR_WRITE_TEMP", "ERROR_UPLOAD_TEMP", "ERROR_UNHANDLED"}

\* C32: process_yesterday_order_date never returns STATE_UNKNOWN,
\* ERROR_UNKNOWN_UPLOAD_STATE, ERROR_NULL_TREE or SUCCESS_NO_DATA_IN_TREE:
\* whenever it has returned, its status is one of the ten others.
C32_DeadStatuses ==
    (job.variant = "yesterday" /\ job.pc = "done") =>
       /\ job.status \in YesterdayStatuses
       /\ job.status \notin {"STATE_UNKNOWN", "ERROR_UNKNOWN_UPLOAD_STATE",
                             "ERROR_NULL_TREE", "SUCCESS_NO_DATA_IN_TREE"}

\* the yesterday job went through the last lines of the function after an
\* upload from a temporary file and returned SUCCESS
C32_Witness ==
    /\ job.variant = "yesterday"
    /\ job.pc = "done"
    /\ job.status = "SUCCESS"
    /\ ~job.write_xml
    /\ job.upload_successful
    /\ job.remove_called
    /\ job.processed_count = 1
    /\ job.n_orders = 2

\* C36: when WRITE_XML is not true, the temporary file is removed on every
\* path once it exists: no temporary file remains when the job has left
\* the temporary-file branch, and ERROR_UPLOAD_TEMP is returned after the
\* removal (stated for the runs in which os.remove itself did not fail).
OutLeftTempBranch == job.pc \in {"final", "done", "raised"}
C36_TempFileRemoved ==
    ~job.remove_failed =>
       /\ OutLeftTempBranch => ~job.temp_exists
       /\ job.status = "ERROR_UPLOAD_TEMP" => job.remove_called

\* C36, the part of it the code keeps: a temporary file whose write went
\* through is removed before the job leaves the branch, after a successful
\* upload, after a failed one and after sys.exit in the uploader.
C36_RemovedWhenWritten ==
    (~job.remove_failed /\ OutLeftTempBranch /\ job.temp_file_path) =>
       /\ ~job.temp_exists
       /\ job.remove_called

(***************************************************************************)
(* Claims about the order document and the CSV (checked under SpecCsv).    *)
(***************************************************************************)
\* the order lines the producer put into the document: the details and the
\* components whose jan_cd is not empty
LinesWritten(orders_root) ==
    Concat([o \in 1..Len(orders_root) |->
       Concat([d \in 1..Len(orders_root[o].details) |->
          LET det == orders_root[o].details[d]
          IN  (IF det.jan_cd # NoText
               THEN <<[line |-> "detail", jan_code |-> det.jan_cd]>> ELSE <<>>)
              \o Concat([c \in 1..Len(det.components) |->
                           IF det.components[c].jan_cd # NoText
                           THEN <<[line |-> "component",
                                   jan_code |-> det.components[c].jan_cd]>>
                           ELSE <<>>])])])

\* C37: for every document the fetch scripts produce, parse_order_items
\* gives one row for each OrderDetail with a jan_cd and one row for each
\* Component with a jan_cd, so that no order line is lost.
C37_NoLineLost ==
    job.pc = "parsed" => job.rows = LinesWritten(job.orders_root)

\* C37, what the consumer does with these documents: it finds no
\* OrderDetail among the children of an Order and emits no row at all.
C37_NoRows ==
    job.pc = "parsed" => job.rows = <<>>

(***************************************************************************)
(* Claims about main over a range of dates (checked under SpecRange).      *)
(***************************************************************************)
RangeEnded == job.pc \in {"returned", "exited"}
RangeValid ==
    /\ ParseDate(job.start) # NoDate
    /\ ParseDate(job.end) # NoDate
    /\ DateLeq(ParseDate(job.start), ParseDate(job.end))

\* dates_to_process is the inclusive range: it starts with start, ends
\* with end, and each date is the day after the one before
IsInclusiveRange(dates) ==
    /\ dates # <<>>
    /\ dates[Len(dates)] = FormatDate(ParseDate(job.end))
    /\ dates[1] = FormatDate(ParseDate(job.start))
    /\ \A i \in 1..(Len(dates) - 1) :
          \E dt \in CalDates \cup {NextDay(c) : c \in CalDates} :
             dates[i] = FormatDate(dt) /\ dates[i + 1] = FormatDate(NextDay(dt))

CountsTotal ==
    job.counts.success + job.counts.no_orders + job.counts.no_data + job.counts.error

\* C33: every date of the inclusive range is attempted exactly once, a
\* date that fails (error status or exception) does not stop the others,
\* and when main ends the four counts add up to the number of dates, each
\* date in exactly one class.
C33_EveryDateCounted ==
    /\ (job.pc # "parse" /\ RangeValid) =>
          /\ IsInclusiveRange(job.dates_to_process)
          /\ Len(job.tasks) = Len(job.dates_to_process)
          /\ \A i \in 1..Len(job.tasks) :
                /\ job.tasks[i].date_str = job.dates_to_process[i]
                /\ job.tasks[i].attempts <= 1
    /\ (RangeEnded /\ RangeValid) =>
          /\ \A i \in 1..Len(job.tasks) :
                job.tasks[i].attempts = 1 /\ job.tasks[i].pc = "done"
          /\ Len(job.summary) = Len(job.dates_to_process)
          /\ CountsTotal = Len(job.dates_to_process)
          /\ \A class \in {"success", "no_orders", "no_data", "error"} :
                job.counts[class] =
                   Cardinality({i \in 1..Len(job.summary) : job.summary[i] = class})

\* C33, the part of it the code keeps: as long as no date task leaves by
\* sys.exit, every date is attempted once and the counts partition the
\* dates, whatever the other tasks returned or raised.
C33_CountedUnlessExit ==
    /\ (job.pc = "returned" /\ RangeValid) =>
          /\ \A i \in 1..Len(job.tasks) :
                job.tasks[i].attempts = 1 /\ job.tasks[i].pc = "done"
          /\ CountsTotal = Len(job.dates_to_process)
          /\ \A class \in {"success", "no_orders", "no_data", "error"} :
                job.counts[class] =
                   Cardinality({i \in 1..Len(job.summary) : job.summary[i] = class})
    /\ job.pc = "exited" => \E i \in 1..Len(job.tasks) : job.tasks[i].pc = "exited"

\* a run over two dates: the first task left by sys.exit in the uploader
\* while the second had not finished, and main ended without a summary
C33_StoppedOthers ==
    /\ job.pc = "exited"
    /\ Len(job.tasks) = 2
    /\ job.tasks[1].pc = "exited"
    /\ job.tasks[2].pc \in {"created", "output"}
    /\ job.summary = <<>>

\* C35: no two date tasks of a run write the same local file or upload to
\* the same Dropbox path: the file name and the path uploaded to are
\* injective functions of the order date, whenever the uploads take place
\* (the functions are compared once, before the run starts).
C35_DistinctOutputs ==
    /\ \A i, k \in 1..Len(job.tasks) :
          i # k =>
             /\ job.tasks[i].date_str # job.tasks[k].date_str
             /\ job.tasks[i].local # NoText => job.tasks[i].local # job.tasks[k].local
             /\ job.tasks[i].remote # NoText => job.tasks[i].remote # job.tasks[k].remote
    /\ \A i \in 1..Len(job.tasks) :
          LET dt == ParseDate(job.tasks[i].date_str)
          IN  /\ (job.tasks[i].local # NoText /\ job.write_xml) =>
                    job.tasks[i].local = OutputFilename(dt)
              /\ job.tasks[i].remote # NoText =>
                    \E now_jst \in RunDays :
                       job.tasks[i].remote = FinalDropboxPath(DropboxTargetPath(dt), now_jst)
    /\ job.pc = "parse" =>
       \A d1, d2 \in CalDates :
          d1 # d2 =>
             /\ OutputFilename(d1) # OutputFilename(d2)
             /\ DropboxTargetPath(d1) # DropboxTargetPath(d2)
             /\ \A t1, t2 \in RunDays :
                   FinalDropboxPath(DropboxTargetPath(d1), t1)
                      # FinalDropboxPath(DropboxTargetPath(d2), t2)

\* two dates of the same month, both written to their dated files and
\* uploaded, the second upload after midnight
C35_Witness ==
    /\ job.write_xml
    /\ Len(job.tasks) = 2
    /\ job.tasks[1].date_str = FormatDate(Date(2023, 12, 30))
    /\ job.tasks[2].date_str = FormatDate(Date(2023, 12, 31))
    /\ job.tasks[1].result = "SUCCESS"
    /\ job.tasks[2].result = "SUCCESS"
    /\ job.tasks[1].local = OrdersPrefix \o <<"2", "0", "2", "3", "1", "2", "3", "0">> \o XmlSuffix
    /\ job.tasks[1].remote = ReportsFolder \o <<"/">> \o OrdersPrefix
          \o <<"2", "0", "2", "3", "1", "2", "3", "0", "_",
               "2", "0", "2", "4", "0", "2", "2", "9">> \o XmlSuffix
    /\ job.tasks[2].remote = ReportsFolder \o <<"/">> \o OrdersPrefix
          \o <<"2", "0", "2", "3", "1", "2", "3", "1", "_",
               "2", "0", "2", "4", "0", "3", "0", "1">> \o XmlSuffix

(***************************************************************************)
(* Claims about the item script (checked under SpecItem).                  *)
(***************************************************************************)
\* a fetch made one call, and its result is what that call met: the text
\* of a 200 answer, None for anything else
SingleAttempt(fetch) ==
    /\ fetch.calls = 1
    /\ Len(fetch.hist) = 1
    /\ fetch.text = (IF fetch.hist[1].kind = "ok" THEN fetch.hist[1].body ELSE None)

ItemSkuFailed(task) ==
    task.sku.calls > 0 /\ task.sku.hist[1].kind # "ok"

\* C34: in the item script every fetch is attempted exactly once: a
\* non-200 answer or an exception is final for a SKU or stock fetch, a
\* non-200 answer to the listing ends the pagination, and an item whose SKU
\* fetch failed is returned as it was and stands in the output at the
\* place it had in the listing.
C34_SingleAttempt ==
    /\ Len(job.pager.sent) = job.pager.page_count
    /\ \A n \in 1..Len(job.pager.seen) :
          job.pager.seen[n] = None =>
             n = Len(job.pager.seen) /\ job.pager.pc \in {"returned", "raised"}
    /\ \A i \in 1..Len(job.tasks) :
          LET task == job.tasks[i]
          IN  /\ task.sku.calls <= 1
              /\ task.pc \in {"created", "sku"} => task.sku.calls = 0
              /\ (task.pc \in {"gather", "done"} /\ task.item_code # NoText) =>
                    SingleAttempt(task.sku)
              /\ \A c \in 1..Len(task.stock) :
                    /\ task.stock[c].calls <= 1
                    /\ task.comps[c].pc = "done" =>
                          SingleAttempt(task.stock[c]) /\ task.comps[c].root = task.stock[c].text
              /\ (task.pc = "done" /\ ItemSkuFailed(task)) =>
                    task.result = ItemUnchanged(job.pager.all_orders_data[i].rec)
    /\ (job.pc = "returned" /\ job.tasks # <<>>) =>
          /\ Len(job.processed_items) = Len(job.pager.all_orders_data)
          /\ \A i \in 1..Len(job.tasks) :
                /\ job.processed_items[i].item = job.pager.all_orders_data[i].rec
                /\ ItemSkuFailed(job.tasks[i]) =>
                      job.processed_items[i] = ItemUnchanged(job.pager.all_orders_data[i].rec)

\* two pages were listed before a 503 ended the pagination; the SKU fetch
\* of the first item met a 503 and was not repeated, the stock fetch of the
\* first item of the second page met a connection error, and both items
\* are in the output
C34_Witness ==
    /\ job.pc = "returned"
    /\ job.pager.page_count = 3
    /\ job.pager.stop = "failed"
    /\ Len(job.processed_items) = 2 * FullPageSize
    /\ job.tasks[1].sku.hist = <<StatusError(503)>>
    /\ job.processed_items[1] = ItemUnchanged(job.pager.all_orders_data[1].rec)
    /\ Len(job.tasks[FullPageSize + 1].stock) = 1
    /\ job.tasks[FullPageSize + 1].stock[1].hist = <<RequestError>>
    /\ job.processed_items[FullPageSize + 1].has_skus

RECURSIVE SumSeq(_)
SumSeq(s) == IF s = <<>> THEN 0 ELSE Head(s) + SumSeq(Tail(s))

AllRetryableFailures(hist) == \A i \in 1..Len(hist) : Retryable(hist[i])

\* C5: async_make_request with max attempts N makes at most N transport
\* calls; a successful call is the last call and its body is the result; and
\* when every call failed with a retryable error the request returns None
\* after exactly N calls.
C5_AtMostNCalls ==
    /\ req.calls <= req.max_retries
    /\ \A i \in 1..Len(req.hist) :
          req.hist[i].kind = "ok" =>
             /\ i = Len(req.hist)
             /\ req.pc = "returned"
             /\ req.result = req.hist[i].body
    /\ (req.pc = "returned" /\ AllRetryableFailures(req.hist)) =>
          /\ req.calls = req.max_retries
          /\ req.result = None

\* three 503 answers in a row with the default N = 3: failure after 3 calls
C5_Witness ==
    /\ req.pc = "returned"
    /\ req.max_retries = DefaultMaxRetries
    /\ req.hist = <<StatusError(503), StatusError(503), StatusError(503)>>
    /\ req.result = None

IsClientError(resp) ==
    resp.kind = "status" /\ resp.code >= 400 /\ resp.code < 500 /\ resp.code # 429

\* C6: in both order scripts a 4xx answer other than 429 is terminal: it is
\* the last transport call of the request and the request returns None.
C6_ClientErrorTerminal ==
    \A i \in 1..Len(req.hist) :
       IsClientError(req.hist[i]) =>
          /\ i = Len(req.hist)
          /\ req.pc = "returned"
          /\ req.result = None

\* C7: the j-th sleep (before attempt j + 1) lasts D * 2^(j - 1); a sleep
\* happens only between two attempts, so a returned request has slept one
\* time less than it has called, and after calls attempts the total slept
\* is D * (2^(calls - 1) - 1).
C7_Backoff ==
    /\ \A j \in 1..Len(req.slept) : req.slept[j] = req.delay * Pow2(j - 1)
    /\ req.pc = "sleeping" => Len(req.slept) = req.calls /\ req.calls < req.max_retries
    /\ req.pc = "calling" => Len(req.slept) = req.calls
    /\ (req.pc = "returned" /\ req.calls > 0) =>
          /\ Len(req.slept) = req.calls - 1
          /\ SumSeq(req.slept) = req.delay * (Pow2(req.calls - 1) - 1)

\* two 503 answers, then success on the third attempt: slept D + 2D
C7_Witness ==
    /\ req.pc = "returned"
    /\ req.delay = DefaultDelay
    /\ req.hist = <<StatusError(503), StatusError(503), Ok(Xml(<<>>))>>
    /\ req.slept = <<DefaultDelay, 2 * DefaultDelay>>
    /\ req.result = Xml(<<>>)

====
